---- MODULE Spec2Model ----
(***************************************************************************)
(* The orchestrator's /chat path of fin-agent-desktop: the submit-input    *)
(* handler of the Electron main process, its streaming decoder, the IPC    *)
(* channel to the chat window, the preload channel bridge and the          *)
(* ChatView session flags.                                                 *)
(*                                                                         *)
(* Text is a sequence of one-character strings, so that the JavaScript     *)
(* string operations of the decoder (replace, indexOf, slice, split,       *)
(* trimEnd, startsWith, join, JSON.parse) are computed character by        *)
(* character.                                                              *)
(***************************************************************************)
EXTENDS Integers, Sequences, FiniteSets, TLC

VARIABLES
  orch,          \* the orchestrator process: "running" | "exited"
  exitCause,     \* why it exited: "none" | "http-status" | "fault"
  swept,         \* killPythonProcess() has run
  pyProc,        \* the worker handle of the main process: "proc" | NULL
  worker,        \* the worker process itself: "running" | "dead"
  chatWindow,    \* the chat BrowserWindow of the main process: "win" | NULL
  hasConversationContext,
  req,           \* the /chat request in flight (one record, see NoReq)
  wire,          \* response body bytes not yet handed to the 'data' handler
  buffer,        \* the decoder's running text buffer (closure variable)
  ipcQ,          \* messages sent to chatWindow.webContents, not yet delivered
  published,     \* history: every bot-stream payload sent, in sending order
  flushLog,      \* history: one record per flushEvent call
  rx,            \* history: the text of every chunk handed to 'data', in order
  callbacks,     \* the bot-stream bridge's callback Set, in insertion order
  mounted,       \* ChatView is mounted in the chat window
  isResponding,  \* ChatView state
  isTyping,      \* ChatView state
  got,           \* history: sequence numbers delivered to ChatView's handler
  inputIsResponding, \* InputView state isResponding (the input window)
  awaiting,      \* per component: submit handlers waiting for checkConfig()
  submitQ,       \* submit-input messages sent to the main process, not yet
                 \* received by it
  owner,         \* history: the window whose submission the request is
  resetSeen,     \* history: the last step was a session reset command
  messages,      \* ChatContext messages (the transcript)
  pub,           \* the publish in progress on the bridge (see NoPub)
  listeners,     \* per channel: ipcRenderer listeners of the chat window
  navDelivered,  \* history: App callbacks run by the last navigate-route
  subscribed,    \* history: handlers whose last call was subscribe
  registered,    \* globalShortcut: accelerator -> handler held by the app
  osHeld,        \* accelerators held by other applications
  currentGlobalShortcut,
  probe,         \* history: the last check-shortcut call and its result
  hotkey,        \* history: the last registerGlobalShortcut call
  capture,       \* history: the shortcut capture (suspend ... resume)
  poll,          \* checkConfigLoop: where it is and its attempts counter
  api,           \* one makeApiRequest call (see NoApi)
  reap,          \* one killProcessOnPort call (see NoReap)
  boot,          \* startup of the main process and its startPythonServer
  stale,         \* workers spawned before the one pyProc was last set to
  second,        \* a second launch of the application (see NoSecond)
  stop           \* killPythonProcess: what it sent to the worker (see NoStop)

\* the /chat path: the main process, the wire and the ChatView session flags
pathVars == <<orch, exitCause, swept, pyProc, worker, chatWindow,
              hasConversationContext, req, wire, buffer, ipcQ, published,
              flushLog, rx, callbacks, mounted, isResponding, isTyping, got>>

\* the submit handlers of the two windows and the transcript
sessionVars == <<inputIsResponding, awaiting, submitQ, owner, resetSeen,
                 messages>>

\* the preload bridge's publish loop and the transport listeners
bridgeVars == <<pub, listeners, navDelivered, subscribed>>

\* the global shortcut registry
shortcutVars == <<registered, osHeld, currentGlobalShortcut, probe>>

\* the histories of the shortcut handlers and the readiness poll
hotkeyVars == <<hotkey, capture, poll>>

\* non-streaming requests, the port cleanup and the process lifecycle
lifeVars == <<api, reap, boot, stale, second, stop>>

vars == <<pathVars, sessionVars, bridgeVars, shortcutVars, hotkeyVars,
          lifeVars>>

NULL == "null"

-----------------------------------------------------------------------------
(* Characters and the JavaScript string operations the decoder uses.       *)

LF == "\n"
CR == "\r"
SP == " "
QT == "\""

\* /\s/ restricted to the white space that can occur in the model's text
IsSpace(c) == c \in {" ", "\t", "\n", "\r"}

MinOf(S) == CHOOSE x \in S : \A y \in S : x <= y

\* s.slice(i) with a 1-based first position
SliceFrom(s, i) == SubSeq(s, i, Len(s))

\* buffer.replace(/\r\n/g, '\n'): every CR that is followed by LF goes
ReplaceCRLF(s) ==
  LET marked == [i \in 1..Len(s) |->
                   IF s[i] = CR /\ i < Len(s) /\ s[i + 1] = LF THEN "" ELSE s[i]]
  IN  SelectSeq(marked, LAMBDA c : c # "")

\* buffer.indexOf('\n\n'), 1-based; 0 stands for -1
IndexOfSeparator(s) ==
  LET I == {i \in 1..(Len(s) - 1) : s[i] = LF /\ s[i + 1] = LF}
  IN  IF I = {} THEN 0 ELSE MinOf(I)

RECURSIVE Split(_)
\* eventText.split('\n')
Split(s) ==
  LET I == {i \in 1..Len(s) : s[i] = LF}
  IN  IF I = {} THEN <<s>>
      ELSE LET i == MinOf(I)
           IN  <<SubSeq(s, 1, i - 1)>> \o Split(SliceFrom(s, i + 1))

RECURSIVE TrimEnd(_)
\* rawLine.trimEnd()
TrimEnd(s) ==
  IF Len(s) > 0 /\ IsSpace(s[Len(s)]) THEN TrimEnd(SubSeq(s, 1, Len(s) - 1))
  ELSE s

RECURSIVE TrimStart(_)
TrimStart(s) ==
  IF Len(s) > 0 /\ IsSpace(s[1]) THEN TrimStart(Tail(s)) ELSE s

\* buffer.trim()
Trim(s) == TrimEnd(TrimStart(s))

StartsWith(s, p) == Len(s) >= Len(p) /\ SubSeq(s, 1, Len(p)) = p

RECURSIVE Join(_)
\* dataLines.join('\n')
Join(lines) ==
  IF Len(lines) = 0 THEN <<>>
  ELSE IF Len(lines) = 1 THEN lines[1]
  ELSE lines[1] \o <<LF>> \o Join(Tail(lines))

S_data == <<"d", "a", "t", "a", ":">>
S_DONE == <<"[", "D", "O", "N", "E", "]">>
S_type == <<"t", "y", "p", "e">>
S_content == <<"c", "o", "n", "t", "e", "n", "t">>
S_finish == <<"f", "i", "n", "i", "s", "h">>
S_error == <<"e", "r", "r", "o", "r">>

-----------------------------------------------------------------------------
(* JSON.parse, for the JSON that occurs in the model: objects, strings     *)
(* without escapes, unsigned integers and the three literals, with white   *)
(* space between tokens.  Arrays, escapes and fractions are outside the    *)
(* modelled grammar and no frame of the model carries one; the only text   *)
(* starting with "[" that reaches the parser is a malformed [DONE], which   *)
(* JSON.parse rejects as well.  A parsed value is a record [j, v].         *)

JStr(s) == [j |-> "str", v |-> s]
JNum(s) == [j |-> "num", v |-> s]
JLit(s) == [j |-> "lit", v |-> s]
JObj(f) == [j |-> "obj", v |-> f]

Digits == {"0", "1", "2", "3", "4", "5", "6", "7", "8", "9"}
S_null == <<"n", "u", "l", "l">>
S_true == <<"t", "r", "u", "e">>
S_false == <<"f", "a", "l", "s", "e">>

ParseFail == [ok |-> FALSE, next |-> 0, val |-> JLit(<<>>)]
ParseOk(n, x) == [ok |-> TRUE, next |-> n, val |-> x]

RECURSIVE SkipWs(_, _)
SkipWs(s, i) ==
  IF i <= Len(s) /\ IsSpace(s[i]) THEN SkipWs(s, i + 1) ELSE i

RECURSIVE DigitsEnd(_, _)
DigitsEnd(s, i) ==
  IF i <= Len(s) /\ s[i] \in Digits THEN DigitsEnd(s, i + 1) ELSE i

StartsWithAt(s, i, p) ==
  i + Len(p) - 1 <= Len(s) /\ SubSeq(s, i, i + Len(p) - 1) = p

ParseString(s, i) ==
  LET J == {k \in (i + 1)..Len(s) : s[k] = QT}
  IN  IF i > Len(s) \/ s[i] # QT \/ J = {} THEN ParseFail
      ELSE LET k == MinOf(J)
               body == SubSeq(s, i + 1, k - 1)
           IN  IF \E m \in 1..Len(body) : body[m] \in {"\n", "\r", "\t", "\\"}
               THEN ParseFail
               ELSE ParseOk(k + 1, JStr(body))

ParseNumber(s, i) ==
  LET e == DigitsEnd(s, i)
  IN  IF e = i \/ (s[i] = "0" /\ e > i + 1) THEN ParseFail
      ELSE ParseOk(e, JNum(SubSeq(s, i, e - 1)))

RECURSIVE ParseValue(_, _)
RECURSIVE ParseMembers(_, _, _)
\* the value starting at position i (white space already skipped)
ParseValue(s, i) ==
  IF i > Len(s) THEN ParseFail
  ELSE IF s[i] = "{" THEN
         LET k == SkipWs(s, i + 1)
         IN  IF k <= Len(s) /\ s[k] = "}" THEN ParseOk(k + 1, JObj(<<>>))
             ELSE ParseMembers(s, k, <<>>)
  ELSE IF s[i] = QT THEN ParseString(s, i)
  ELSE IF s[i] \in Digits THEN ParseNumber(s, i)
  ELSE IF StartsWithAt(s, i, S_null) THEN ParseOk(i + 4, JLit(S_null))
  ELSE IF StartsWithAt(s, i, S_true) THEN ParseOk(i + 4, JLit(S_true))
  ELSE IF StartsWithAt(s, i, S_false) THEN ParseOk(i + 5, JLit(S_false))
  ELSE ParseFail

\* the members of an object from the key at position i on; a repeated key
\* keeps its last value
ParseMembers(s, i, acc) ==
  LET key == ParseString(s, i)
  IN  IF ~key.ok THEN ParseFail
      ELSE LET c == SkipWs(s, key.next)
           IN  IF c > Len(s) \/ s[c] # ":" THEN ParseFail
               ELSE LET val == ParseValue(s, SkipWs(s, c + 1))
                    IN  IF ~val.ok THEN ParseFail
                        ELSE LET acc2 == (key.val.v :> val.val) @@ acc
                                 d == SkipWs(s, val.next)
                             IN  IF d > Len(s) THEN ParseFail
                                 ELSE IF s[d] = "}" THEN ParseOk(d + 1, JObj(acc2))
                                 ELSE IF s[d] = ","
                                      THEN ParseMembers(s, SkipWs(s, d + 1), acc2)
                                 ELSE ParseFail

\* a parser that stops at the end of the first value and ignores what follows
JSONParseLenient(s) ==
  LET r == ParseValue(s, SkipWs(s, 1))
  IN  IF r.ok THEN [ok |-> TRUE, value |-> r.val]
      ELSE [ok |-> FALSE, value |-> JLit(<<>>)]

\* JSON.parse(dataStr): [ok, value]; ok = FALSE stands for the SyntaxError
JSONParse(s) ==
  LET r == ParseValue(s, SkipWs(s, 1))
  IN  IF r.ok /\ SkipWs(s, r.next) > Len(s)
      THEN [ok |-> TRUE, value |-> r.val]
      ELSE [ok |-> FALSE, value |-> JLit(<<>>)]

\* data.type of a payload; <<>> stands for undefined
TypeOf(data) ==
  IF data.j = "obj" /\ S_type \in DOMAIN data.v /\ data.v[S_type].j = "str"
  THEN data.v[S_type].v
  ELSE <<>>

\* !data
Falsy(data) ==
  \/ data.j = "lit" /\ data.v \in {S_null, S_false}
  \/ data.j = "num" /\ data.v = <<"0">>
  \/ data.j = "str" /\ data.v = <<>>

\* { type: 'finish' }
FinishEvent == JObj(S_type :> JStr(S_finish))

\* { type: 'error', content: `${prefix}${message}` }; the message text is one
\* element of the string
ErrorEvent(prefix, message) ==
  JObj((S_type :> JStr(S_error)) @@ (S_content :> JStr(<<prefix, message>>)))

-----------------------------------------------------------------------------
(* flushEvent and the body of the 'data' and 'end' handlers, as functions  *)
(* of the buffer: what is sent on bot-stream and what is left.             *)

\* a value stripped of all the white space after the marker
DataValueGreedy(line) == TrimStart(SliceFrom(line, 6))

\* value = line.slice(5).replace(/^\s/, '')
DataValue(line) ==
  LET rest == SliceFrom(line, 6)
  IN  IF Len(rest) > 0 /\ IsSpace(rest[1]) THEN Tail(rest) ELSE rest

\* the dataLines array flushEvent builds from eventText
DataLines(eventText) ==
  LET lines == Split(eventText)
      F[i \in 0..Len(lines)] ==
        IF i = 0 THEN <<>>
        ELSE LET line == TrimEnd(lines[i])
             IN  IF line = <<>> THEN F[i - 1]
                 ELSE IF StartsWith(line, S_data)
                      THEN Append(F[i - 1], DataValue(line))
                      ELSE F[i - 1]
  IN  F[Len(lines)]

\* a frame that hands its payload to JSON.parse and sends what was parsed
FlushEventNoSentinel(eventText, win) ==
  LET dataLines == DataLines(eventText)
      dataStr == Join(dataLines)
      r == JSONParse(dataStr)
  IN  IF Len(dataLines) = 0 THEN [text |-> eventText, parsed |-> <<>>, sent |-> <<>>]
      ELSE [text |-> eventText, parsed |-> <<dataStr>>,
            sent |-> IF r.ok /\ win # NULL THEN <<r.value>> ELSE <<>>]

\* a frame whose parse failure is sent on as an error event
FlushEventSendsFailure(eventText, win) ==
  LET dataLines == DataLines(eventText)
      dataStr == Join(dataLines)
      r == JSONParse(dataStr)
  IN  IF Len(dataLines) = 0 THEN [text |-> eventText, parsed |-> <<>>, sent |-> <<>>]
      ELSE IF dataStr = S_DONE
           THEN [text |-> eventText, parsed |-> <<>>,
                 sent |-> IF win # NULL THEN <<FinishEvent>> ELSE <<>>]
      ELSE [text |-> eventText, parsed |-> <<dataStr>>,
            sent |-> IF win = NULL THEN <<>>
                     ELSE IF r.ok THEN <<r.value>>
                     ELSE <<ErrorEvent("Parse error: ", "SyntaxError")>>]

\* flushEvent(eventText): the record of one call: the text it was given, what
\* it handed to JSON.parse and what it sent on bot-stream (win = chatWindow)
FlushEvent(eventText, win) ==
  LET dataLines == DataLines(eventText)
      dataStr == Join(dataLines)
      r == JSONParse(dataStr)
  IN  IF Len(dataLines) = 0 THEN [text |-> eventText, parsed |-> <<>>, sent |-> <<>>]
      ELSE IF dataStr = S_DONE
           THEN [text |-> eventText, parsed |-> <<>>,
                 sent |-> IF win # NULL THEN <<FinishEvent>> ELSE <<>>]
      ELSE [text |-> eventText, parsed |-> <<dataStr>>,
            sent |-> IF r.ok /\ win # NULL THEN <<r.value>> ELSE <<>>]

\* an if in place of the while: one frame is cut off per chunk
DrainFramesOnce(buf, win) ==
  LET idx == IndexOfSeparator(buf)
  IN  IF idx = 0 THEN [buffer |-> buf, flushes |-> <<>>]
      ELSE [buffer |-> SliceFrom(buf, idx + 2),
            flushes |-> <<FlushEvent(SubSeq(buf, 1, idx - 1), win)>>]

RECURSIVE DrainFrames(_, _)
\* the while loop of the 'data' handler: every frame up to a separator is
\* cut off the buffer and flushed, first to last
DrainFrames(buf, win) ==
  LET idx == IndexOfSeparator(buf)
  IN  IF idx = 0 THEN [buffer |-> buf, flushes |-> <<>>]
      ELSE LET rest == DrainFrames(SliceFrom(buf, idx + 2), win)
           IN  [buffer |-> rest.buffer,
                flushes |-> <<FlushEvent(SubSeq(buf, 1, idx - 1), win)>>
                            \o rest.flushes]

\* the 'data' handler without the CRLF normalisation
DataStepNoCRLF(buf, chunk, win) == DrainFrames(buf \o chunk, win)

\* the 'data' handler: append, normalise CRLF, drain
DataStep(buf, chunk, win) == DrainFrames(ReplaceCRLF(buf \o chunk), win)

\* an 'end' handler that throws the rest of the buffer away
EndStepDrops(buf, win) == <<>>

\* the 'end' handler: a non-blank rest is flushed as one last frame
EndStep(buf, win) ==
  IF Trim(buf) # <<>> THEN <<FlushEvent(buf, win)>> ELSE <<>>

RECURSIVE SentBy(_)
\* the payloads a sequence of flushEvent calls sent, in order
SentBy(flushes) ==
  IF Len(flushes) = 0 THEN <<>>
  ELSE flushes[1].sent \o SentBy(Tail(flushes))


-----------------------------------------------------------------------------
(* The response bodies the worker sends: a body is a sequence of frames,   *)
(* each followed by the separator (two line ends), written with LF or with *)
(* CRLF line ends; the last separator may be missing.                      *)

MaxFrames == 2

T_a == <<"d", "a", "t", "a", ":", " ", "{", QT, "a", QT, ":", "1", "}">>
T_a2 == <<"d", "a", "t", "a", ":", " ", "{", QT, "a", QT, ":", "1", "}", "}">>
T_b == <<"d", "a", "t", "a", ":", " ", "{", QT, "b", QT, ":", "2", "}">>
T_done == <<"d", "a", "t", "a", ":", " ", "[", "D", "O", "N", "E", "]">>
T_tight == <<"d", "a", "t", "a", ":", "[", "D", "O", "N", "E", "]">>
T_hi == <<"d", "a", "t", "a", ":", " ", "{", QT, "t", "y", "p", "e", QT, ":", QT, "c", "o", "n", "t", "e", "n", "t", QT, ",", QT, "c", "o", "n", "t", "e", "n", "t", QT, ":", QT, "h", "i", QT, "}">>
T_ping == <<":", " ", "p", "i", "n", "g">>
T_multi1 == <<"d", "a", "t", "a", ":", " ", "{">>
T_multi2 == <<"d", "a", "t", "a", ":", " ", QT, "b", QT, ":", "2", "}">>
T_done_sp == T_done \o <<SP>>
T_wide == <<"d", "a", "t", "a", ":", " ", " ", "{", QT, "a", QT, ":", "1", "}">>
T_tab == <<"d", "a", "t", "a", ":", "\t", "[", "D", "O", "N", "E", "]">>
T_event == <<"e", "v", "e", "n", "t", ":", " ", "m">>
T_indented == <<" ">> \o T_b

EolLF == <<LF>>
EolCRLF == <<CR, LF>>
\* a line end with a stray CR in front of it
EolCRCRLF == <<CR, CR, LF>>

\* the text of one frame of each kind, without its separator
FrameText(kind, eol) ==
  CASE kind = "a" -> T_a
    [] kind = "a2" -> T_a2
    [] kind = "b" -> T_b
    [] kind = "done" -> T_done
    [] kind = "tight" -> T_tight
    [] kind = "hi" -> T_hi
    [] kind = "ping" -> T_ping
    [] kind = "multi" -> T_multi1 \o eol \o T_multi2
    [] kind = "donesp" -> T_done_sp
    [] kind = "wide" -> T_wide
    [] kind = "tab" -> T_tab
    [] kind = "named" -> T_event \o eol \o T_indented \o eol \o T_multi1
                           \o eol \o T_multi2 \o <<SP>>

DecodeKinds == {"a", "a2", "done", "ping", "multi"}

\* frames whose lines carry white space around the payload, lines that are
\* not data lines, and several data lines
LineKinds == {"multi", "wide", "tab", "named"}

RECURSIVE SeqsUpTo(_, _)
\* the sequences over S of length at most n
SeqsUpTo(S, n) ==
  IF n = 0 THEN {<<>>}
  ELSE LET R == SeqsUpTo(S, n - 1)
       IN  R \cup {Append(q, x) : q \in R, x \in S}

RECURSIVE BodyText(_, _, _)
\* the bytes of a body
BodyText(frames, eol, term) ==
  IF Len(frames) = 0 THEN <<>>
  ELSE FrameText(frames[1], eol)
       \o (IF Len(frames) > 1 \/ term THEN eol \o eol ELSE <<>>)
       \o BodyText(Tail(frames), eol, term)

\* the two-frame stream and the one-frame stream of the documented scenarios
ScenarioBodies ==
  {[frames |-> <<"a2", "b">>, eol |-> EolLF, term |-> TRUE],
   [frames |-> <<"hi">>, eol |-> EolLF, term |-> TRUE]}

\* the bodies of the decoder specification and of the system specification
DecodeBodies ==
  {[frames |-> f, eol |-> e, term |-> t] :
      f \in SeqsUpTo(DecodeKinds, MaxFrames), e \in {EolLF, EolCRLF},
      t \in BOOLEAN}
  \cup ScenarioBodies

\* the bodies of the line specification: LF line ends, and line ends with a
\* stray CR
LineBodies ==
  {[frames |-> f, eol |-> e, term |-> t] :
      f \in {<<k>> : k \in LineKinds}
             \cup SeqsUpTo({"a", "donesp"}, MaxFrames),
      e \in {EolLF, EolCRCRLF}, t \in BOOLEAN}

SysBodies ==
  {[frames |-> f, eol |-> EolLF, term |-> TRUE] :
      f \in {<<>>, <<"a">>, <<"a", "done">>}}

HttpOk == 200
Statuses == {HttpOk, 500}
Texts == {"hi", ""}

-----------------------------------------------------------------------------
(* ChatView: how a bot-stream event changes the transcript (the updater    *)
(* handed to setMessages).  A message is [role, content, logs, blocks]; a  *)
(* block is [type, content, name, args, status, result, lastChunkLength],  *)
(* with <<>> for a field the block does not have.                          *)

S_answer == <<"a", "n", "s", "w", "e", "r">>
S_thinking == <<"t", "h", "i", "n", "k", "i", "n", "g">>
S_log == <<"l", "o", "g">>
S_tool_call == <<"t", "o", "o", "l", "_", "c", "a", "l", "l">>
S_tool_call_chunk == S_tool_call \o <<"_", "c", "h", "u", "n", "k">>
S_tool_result == <<"t", "o", "o", "l", "_", "r", "e", "s", "u", "l", "t">>
S_name == <<"n", "a", "m", "e">>
S_arguments == <<"a", "r", "g", "u", "m", "e", "n", "t", "s">>
S_args == <<"a", "r", "g", "s">>
S_tool_name == <<"t", "o", "o", "l", "_", "n", "a", "m", "e">>
S_result == <<"r", "e", "s", "u", "l", "t">>
S_undefined == <<"u", "n", "d", "e", "f", "i", "n", "e", "d">>

\* data[key] is there (not undefined)
Has(data, key) == data.j = "obj" /\ key \in DOMAIN data.v

\* `${data[key]}`: the text a field contributes to a string concatenation
Str(data, key) ==
  IF ~Has(data, key) THEN S_undefined
  ELSE IF data.v[key].j \in {"str", "num", "lit"} THEN data.v[key].v
  ELSE <<"[", "o", "b", "j", "e", "c", "t", " ", "O", "b", "j", "e", "c", "t", "]">>

\* data[key] || '': the value if it is truthy
OrEmpty(data, key) ==
  IF Has(data, key) /\ ~Falsy(data.v[key]) THEN Str(data, key) ELSE <<>>

\* s.endsWith(p)
EndsWith(s, p) ==
  /\ Len(p) <= Len(s)
  /\ SubSeq(s, Len(s) - Len(p) + 1, Len(s)) = p

Block(type, content) ==
  [type |-> type, content |-> content, name |-> <<>>, args |-> <<>>,
   status |-> "", result |-> <<>>, lastChunkLength |-> 0]

ToolBlock(name, args, status, result) ==
  [type |-> "tool_execution", content |-> <<>>, name |-> name, args |-> args,
   status |-> status, result |-> result, lastChunkLength |-> 0]

\* { role: 'assistant', content: '', logs: '', blocks: [] }
NewAssistant ==
  [role |-> "assistant", content |-> <<>>, logs |-> <<>>, blocks |-> <<>>]

\* { role: 'user', content: text, blocks: [] }
UserMessage(text) ==
  [role |-> "user", content |-> text, logs |-> <<>>, blocks |-> <<>>]

\* getLastBlock(type) / getLastToolExecution() found a block
LastIs(m, type) ==
  m.blocks # <<>> /\ m.blocks[Len(m.blocks)].type = type

\* the last block replaced by b
WithLast(m, b) == [m EXCEPT !.blocks[Len(m.blocks)] = b]

\* lastBlock.content += text, or a new block of the type
AppendTo(m, type, text) ==
  IF LastIs(m, type)
  THEN WithLast(m, [m.blocks[Len(m.blocks)] EXCEPT !.content = @ \o text])
  ELSE [m EXCEPT !.blocks = Append(@, Block(type, text))]

\* data.type === 'content'
ContentEvent(m, data) ==
  AppendTo([m EXCEPT !.content = @ \o Str(data, S_content)], "text",
           Str(data, S_content))

\* an answer branch that adds the answer whatever was streamed
AnswerEventAlways(m, data) ==
  AppendTo([m EXCEPT !.content = @ \o OrEmpty(data, S_content)], "text",
           OrEmpty(data, S_content))

\* data.type === 'answer'
AnswerEvent(m, data) ==
  IF Trim(m.content) = <<>>
  THEN AppendTo([m EXCEPT !.content = OrEmpty(data, S_content)], "text",
                OrEmpty(data, S_content))
  ELSE m

\* data.type === 'thinking'
ThinkingEvent(m, data) == AppendTo(m, "thinking", Str(data, S_content))

\* data.type === 'log'
LogEvent(m, data) ==
  [m EXCEPT !.logs = @ \o <<"[Log] ">> \o Str(data, S_content) \o <<LF>>]

\* typeof data.args === 'string' ? data.args : JSON.stringify(data.args),
\* for the scalar values of the modelled JSON
ArgsStr(data) ==
  IF Has(data, S_args) /\ data.v[S_args].j = "str" THEN data.v[S_args].v
  ELSE IF Has(data, S_args) /\ data.v[S_args].j \in {"num", "lit"}
       THEN data.v[S_args].v
  ELSE S_undefined

\* data.type === 'tool_call'
ToolCallEvent(m, data) ==
  LET last == m.blocks[Len(m.blocks)]
      m2 == IF /\ LastIs(m, "tool_execution")
               /\ last.status = "running"
               /\ last.name = Str(data, S_tool_name)
            THEN WithLast(m, [last EXCEPT !.args = ArgsStr(data)])
            ELSE [m EXCEPT !.blocks =
                    Append(@, ToolBlock(Str(data, S_tool_name), ArgsStr(data),
                                        "running", <<>>))]
  IN  [m2 EXCEPT !.logs = @ \o <<"[Tool Call] ">> \o Str(data, S_tool_name)
                            \o <<"(">> \o ArgsStr(data) \o <<")", LF>>]

\* a tool_call_chunk branch that appends every chunk
ToolCallChunkEventAppends(m, data) ==
  LET named == Has(data, S_name) /\ ~Falsy(data.v[S_name])
      last == m.blocks[Len(m.blocks)]
      fresh == named /\ (\/ ~LastIs(m, "tool_execution")
                         \/ last.status # "running"
                         \/ (last.name # <<>> /\ last.name # Str(data, S_name)))
      m2 == IF fresh
            THEN [m EXCEPT !.blocks =
                    Append(@, ToolBlock(Str(data, S_name), <<>>, "running",
                                        <<>>))]
            ELSE IF named /\ last.name = <<>>
                 THEN WithLast(m, [last EXCEPT !.name = Str(data, S_name)])
            ELSE m
      tool == m2.blocks[Len(m2.blocks)]
  IN  IF /\ Has(data, S_arguments) /\ ~Falsy(data.v[S_arguments])
         /\ LastIs(m2, "tool_execution") /\ tool.status = "running"
      THEN WithLast(m2, [tool EXCEPT
                           !.args = @ \o Str(data, S_arguments),
                           !.lastChunkLength =
                             Len(tool.args \o Str(data, S_arguments))])
      ELSE m2

\* data.type === 'tool_call_chunk'
ToolCallChunkEvent(m, data) ==
  LET named == Has(data, S_name) /\ ~Falsy(data.v[S_name])
      last == m.blocks[Len(m.blocks)]
      fresh == named /\ (\/ ~LastIs(m, "tool_execution")
                         \/ last.status # "running"
                         \/ (last.name # <<>> /\ last.name # Str(data, S_name)))
      m2 == IF fresh
            THEN [m EXCEPT !.blocks =
                    Append(@, ToolBlock(Str(data, S_name), <<>>, "running",
                                        <<>>))]
            ELSE IF named /\ last.name = <<>>
                 THEN WithLast(m, [last EXCEPT !.name = Str(data, S_name)])
            ELSE m
      tool == m2.blocks[Len(m2.blocks)]
  IN  IF /\ Has(data, S_arguments) /\ ~Falsy(data.v[S_arguments])
         /\ LastIs(m2, "tool_execution") /\ tool.status = "running"
      THEN IF EndsWith(tool.args, Str(data, S_arguments))
           THEN m2
           ELSE WithLast(m2, [tool EXCEPT
                                !.args = @ \o Str(data, S_arguments),
                                !.lastChunkLength =
                                  Len(tool.args \o Str(data, S_arguments))])
      ELSE m2


\* data?.result == null ? '' : String(data.result)
RawResult(data) ==
  IF Has(data, S_result) /\ data.v[S_result] # JLit(S_null)
  THEN Str(data, S_result)
  ELSE <<>>

\* data.type === 'tool_result'; results of the model stay under the 500
\* characters at which the log entry is cut
ToolResultEvent(m, data) ==
  LET last == m.blocks[Len(m.blocks)]
      m2 == IF LastIs(m, "tool_execution")
            THEN WithLast(m, [last EXCEPT !.result = RawResult(data),
                                          !.status = "success"])
            ELSE [m EXCEPT !.blocks =
                    Append(@, ToolBlock(Str(data, S_tool_name),
                                        <<"(Missing input)">>, "success",
                                        RawResult(data)))]
  IN  [m2 EXCEPT !.logs = @ \o <<"[Tool Result] ">> \o RawResult(data)
                            \o <<LF>>]

\* data.type === 'error'
ErrorEventShown(m, data) ==
  [m EXCEPT !.content = @ \o <<LF, "**Error:** ">> \o Str(data, S_content),
            !.blocks = Append(@, Block("text", <<LF, "**Error:** ">>
                                               \o Str(data, S_content)))]

\* the updater of setMessages for one truthy bot-stream payload
ApplyEvent(msgs, data) ==
  LET base == IF msgs = <<>> \/ msgs[Len(msgs)].role # "assistant"
              THEN Append(msgs, NewAssistant)
              ELSE msgs
      m == base[Len(base)]
      t == TypeOf(data)
      m2 == IF t = S_content THEN ContentEvent(m, data)
            ELSE IF t = S_answer THEN AnswerEvent(m, data)
            ELSE IF t = S_thinking THEN ThinkingEvent(m, data)
            ELSE IF t = S_log THEN LogEvent(m, data)
            ELSE IF t = S_tool_call THEN ToolCallEvent(m, data)
            ELSE IF t = S_tool_call_chunk THEN ToolCallChunkEvent(m, data)
            ELSE IF t = S_tool_result THEN ToolResultEvent(m, data)
            ELSE IF t = S_error THEN ErrorEventShown(m, data)
            ELSE m
  IN  [base EXCEPT ![Len(base)] = m2]

\* ChatContext.clearMessages(): the transcript after it
ClearMessages(msgs) == <<>>

-----------------------------------------------------------------------------
(* State.                                                                  *)

NoReq ==
  [phase |-> "none", text |-> "", status |-> 0, frames |-> <<>>,
   eol |-> EolLF, term |-> TRUE, killed |-> FALSE, errs |-> 0]

\* a request that needs nothing more from the network
Settled == {"none", "failed", "ended", "aborted", "thrown"}

\* the two renderer windows that submit
Windows == {"chat", "input"}

\* whose submit handlers wait for checkConfig(): the mounted ChatView, the
\* InputView, and ChatView instances that have been unmounted since
Handlers == Windows \cup {"gone"}

\* no publish is in progress on the bridge
NoPub ==
  [active |-> FALSE, pos |-> 0, running |-> NULL, invoked |-> <<>>,
   atStart |-> {}, unsub |-> {}, selfUnsub |-> {}, sub |-> {}, calls |-> 0]

\* the channels that go through createChannelBridge, and navigate-route
BridgeChannels == {"new-message", "bot-response", "bot-stream", "focus-input"}
NavigateRoute == "navigate-route"

DefaultShortcut == "Ctrl+Alt+Q"

\* accelerators: the default, another valid one, and one that
\* globalShortcut.register rejects by throwing
Accels == {DefaultShortcut, "Ctrl+Alt+W", "Ctrl+Alt+E", "Ctrl+Bad"}
Invalid == {"Ctrl+Bad"}

NoProbe ==
  [shortcut |-> NULL, ret |-> FALSE, registered |-> [a \in Accels |-> "none"],
   current |-> NULL, held |-> {}]

\* no registerGlobalShortcut call to report
NoRegister == [shortcut |-> NULL, outcome |-> "none"]

\* no shortcut capture is going on
NoCapture == [suspended |-> FALSE, before |-> NULL, resumed |-> FALSE]

\* checkConfigLoop has not made a request yet
PollStart == [phase |-> "config", attempts |-> 0, answered |-> 0]

\* no makeApiRequest call
NoApi ==
  [phase |-> "idle", sent |-> <<>>, body |-> <<>>, buffer |-> <<>>,
   error |-> FALSE, settled |-> "pending", json |-> JLit(<<>>),
   text |-> <<>>]

\* no killProcessOnPort call
NoReap ==
  [phase |-> "idle", platform |-> "posix", scan |-> "none", pids |-> <<>>,
   fails |-> {}, next |-> 1, tried |-> <<>>, threw |-> FALSE,
   settled |-> FALSE]

\* killPythonProcess has not run: no signal sent, no SIGKILL timer set, no
\* forced kill sent; late says that the forced kill was sent after the
\* worker had exited
NoStop ==
  [signal |-> "none", timer |-> FALSE, forced |-> FALSE, late |-> FALSE]

\* no second launch
NoSecond ==
  [phase |-> "none", did |-> {}, pending |-> FALSE, seen |-> 0,
   focus |-> "none"]

\* startPythonServer has returned and the worker listens on the port
Up == [phase |-> "up", starts |-> 1, bound |-> TRUE, crashed |-> FALSE]

\* the values of everything but the process lifecycle once the app is ready
InitCommon ==
  /\ inputIsResponding = FALSE
  /\ awaiting = [w \in Handlers |-> 0]
  /\ submitQ = <<>>
  /\ owner = NULL
  /\ resetSeen = FALSE
  /\ messages = <<>>
  /\ pub = NoPub
  /\ listeners = [ch \in BridgeChannels \cup {NavigateRoute} |-> 1]
  /\ navDelivered = 0
  /\ subscribed = {"ChatView"}
  /\ osHeld = {}
  /\ currentGlobalShortcut = DefaultShortcut
  /\ probe = NoProbe
  /\ hotkey = NoRegister
  /\ capture = NoCapture
  /\ poll = PollStart
  /\ api = NoApi
  /\ reap = NoReap
  /\ stale = <<>>
  /\ second = NoSecond
  /\ stop = NoStop
  /\ orch = "running"
  /\ exitCause = "none"
  /\ swept = FALSE
  /\ hasConversationContext = FALSE
  /\ req = NoReq
  /\ wire = <<>>
  /\ buffer = <<>>
  /\ ipcQ = <<>>
  /\ published = <<>>
  /\ flushLog = <<>>
  /\ rx = <<>>
  /\ callbacks = <<"ChatView">>
  /\ mounted = TRUE
  /\ isResponding = FALSE
  /\ isTyping = FALSE
  /\ got = <<>>

\* the state once the app.whenReady() callback and startPythonServer have run
Init ==
  /\ InitCommon
  /\ registered = [a \in Accels |->
                     IF a = DefaultShortcut THEN "toggle" ELSE "none"]
  /\ pyProc = "proc"
  /\ worker = "running"
  /\ chatWindow = "win"
  /\ boot = Up

mainVars == <<orch, exitCause, swept, pyProc, worker, chatWindow,
              hasConversationContext>>
viewVars == <<callbacks, mounted, isResponding, isTyping, got>>

\* chatWindow.webContents.send('bot-stream', ev) for each ev, in order
Publish(evs) ==
  /\ published' = published \o evs
  /\ ipcQ' = ipcQ \o [i \in 1..Len(evs) |->
                        [ch |-> "bot-stream", seq |-> Len(published) + i,
                         data |-> evs[i]]]

\* killPythonProcess() followed by process.exit(1): the handle is dropped and
\* the worker has been signalled; whether it is gone already is not known
UncaughtException(cause) ==
  /\ orch' = "exited"
  /\ exitCause' = cause
  /\ swept' = TRUE
  /\ pyProc' = NULL
  /\ worker' \in (IF pyProc # NULL THEN {worker, "dead"} ELSE {worker})


-----------------------------------------------------------------------------
(* The main process: ipcMain.on('submit-input') and the callbacks of its   *)
(* http.request.  One request is followed at a time.                       *)

\* ipcMain.on('submit-input'): the text goes to the chat window as
\* new-message and POST /chat is issued.  The histories restart with the
\* request.  The submission comes once the chat window has drawn every
\* message sent to it so far.
SubmitInput(text) ==
  /\ orch = "running"
  /\ req.phase \in Settled
  /\ ipcQ = <<>>
  /\ hasConversationContext' = TRUE
  /\ IF chatWindow # NULL
     THEN /\ ipcQ' = <<[ch |-> "new-message", seq |-> 0, data |-> text]>>
          /\ req' = [NoReq EXCEPT !.phase = "sent", !.text = text]
     ELSE /\ ipcQ' = ipcQ
          /\ req' = NoReq
  /\ wire' = <<>>
  /\ buffer' = <<>>
  /\ published' = <<>>
  /\ flushLog' = <<>>
  /\ rx' = <<>>
  /\ got' = <<>>
  /\ UNCHANGED <<orch, exitCause, swept, pyProc, worker, chatWindow,
                 callbacks, mounted, isResponding, isTyping>>

\* a response callback that does not look at the status
OnResponseAnyStatus(status, body) ==
  /\ orch = "running"
  /\ req.phase = "sent"
  /\ worker = "running"
  /\ req' = [req EXCEPT !.phase = "streaming", !.status = status,
                        !.frames = body.frames, !.eol = body.eol,
                        !.term = body.term]
  /\ buffer' = <<>>
  /\ wire' = BodyText(body.frames, body.eol, body.term)
  /\ UNCHANGED <<mainVars, ipcQ, published, flushLog, rx, viewVars>>

\* the response callback of http.request: a status other than 200 throws,
\* outside every try block, so the uncaughtException handler runs; with 200
\* the buffer is created and the stream handlers are attached
OnResponse(status, body) ==
  /\ orch = "running"
  /\ req.phase = "sent"
  /\ worker = "running"
  /\ req' = [req EXCEPT !.phase = IF status # HttpOk THEN "thrown"
                                  ELSE "streaming",
                        !.status = status, !.frames = body.frames,
                        !.eol = body.eol, !.term = body.term]
  /\ wire' = BodyText(body.frames, body.eol, body.term)
  /\ IF status # HttpOk
     THEN /\ UncaughtException("http-status")
          /\ UNCHANGED <<chatWindow, hasConversationContext, buffer>>
     ELSE /\ buffer' = <<>>
          /\ UNCHANGED mainVars
  /\ UNCHANGED <<ipcQ, published, flushLog, rx, viewVars>>

\* res.on('data'): the next n bytes of the body arrive as one chunk
OnData(n) ==
  /\ orch = "running"
  /\ req.phase = "streaming"
  /\ n \in 1..Len(wire)
  /\ LET chunk == SubSeq(wire, 1, n)
         r == DataStep(buffer, chunk, chatWindow)
     IN  /\ buffer' = r.buffer
         /\ flushLog' = flushLog \o r.flushes
         /\ Publish(SentBy(r.flushes))
         /\ rx' = rx \o chunk
  /\ wire' = SliceFrom(wire, n + 1)
  /\ UNCHANGED <<mainVars, req, viewVars>>

\* res.on('end'): every byte written was delivered and the body ended (also
\* a body delimited by the close of the connection, after the worker died
\* or the socket failed)
OnEnd ==
  /\ orch = "running"
  /\ req.phase \in {"streaming", "resetting"}
  /\ wire = <<>>
  /\ LET flushes == EndStep(buffer, chatWindow)
     IN  /\ flushLog' = flushLog \o flushes
         /\ Publish(SentBy(flushes))
  /\ req' = [req EXCEPT !.phase = "ended"]
  /\ UNCHANGED <<mainVars, wire, buffer, rx, viewVars>>

\* req.on('error'): the connection is refused or hangs up before a response,
\* or the socket fails while the body is streamed; the socket is destroyed
\* and bytes not yet delivered are lost
ReqOnError ==
  /\ orch = "running"
  /\ req.phase \in {"sent", "streaming"}
  /\ IF chatWindow # NULL
     THEN Publish(<<ErrorEvent("Request error: ", "ECONNRESET")>>)
     ELSE UNCHANGED <<published, ipcQ>>
  /\ req' = [req EXCEPT !.phase = IF req.phase = "sent" THEN "failed"
                                  ELSE "resetting",
                        !.errs = @ + (IF chatWindow # NULL THEN 1 ELSE 0)]
  /\ wire' = <<>>
  /\ UNCHANGED <<mainVars, buffer, flushLog, rx, viewVars>>

\* res.on('error'): the response is destroyed before its body is complete,
\* after a socket failure or when the dead worker's connection closes
ResOnError ==
  /\ orch = "running"
  /\ \/ req.phase = "resetting"
     \/ req.phase = "streaming" /\ req.killed /\ wire = <<>>
  /\ IF chatWindow # NULL
     THEN Publish(<<ErrorEvent("Stream error: ", "aborted")>>)
     ELSE UNCHANGED <<published, ipcQ>>
  /\ req' = [req EXCEPT !.phase = "aborted",
                        !.errs = @ + (IF chatWindow # NULL THEN 1 ELSE 0)]
  /\ UNCHANGED <<mainVars, wire, buffer, flushLog, rx, viewVars>>

\* the worker process dies (a crash or a kill from outside); the body bytes
\* in flight still arrive or are lost with it
KillWorker ==
  /\ orch = "running"
  /\ worker = "running"
  /\ worker' = "dead"
  /\ IF req.phase = "streaming"
     THEN /\ wire' \in {<<>>, wire}
          /\ req' = [req EXCEPT !.killed = TRUE]
     ELSE UNCHANGED <<wire, req>>
  /\ UNCHANGED <<orch, exitCause, swept, pyProc, chatWindow,
                 hasConversationContext, buffer, ipcQ, published, flushLog,
                 rx, viewVars>>

\* pyProc.on('close'): the handle is dropped
OnPyClose ==
  /\ orch = "running"
  /\ worker = "dead"
  /\ pyProc # NULL
  /\ pyProc' = NULL
  /\ UNCHANGED <<orch, exitCause, swept, worker, chatWindow,
                 hasConversationContext, req, wire, buffer, ipcQ, published,
                 flushLog, rx, viewVars>>

\* process.on('uncaughtException') / ('unhandledRejection') for a fault that
\* is not raised by the /chat path
FatalFault ==
  /\ orch = "running"
  /\ UncaughtException("fault")
  /\ UNCHANGED <<chatWindow, hasConversationContext, req, wire, buffer, ipcQ,
                 published, flushLog, rx, viewVars>>

-----------------------------------------------------------------------------
(* The chat window: the preload bridge and ChatView.                       *)

StartTypes ==
  {S_content, <<"a", "n", "s", "w", "e", "r">>,
   <<"t", "h", "i", "n", "k", "i", "n", "g">>,
   <<"t", "o", "o", "l", "_", "c", "a", "l", "l">>,
   <<"t", "o", "o", "l", "_", "c", "a", "l", "l", "_", "c", "h", "u", "n", "k">>}

\* ChatView's onBotStream callback on the session [isResponding, isTyping, got]
OnBotStream(sess, msg) ==
  LET t == TypeOf(msg.data)
      seen == [sess EXCEPT !.got = Append(@, msg.seq)]
  IN  IF Falsy(msg.data) THEN seen
      ELSE IF t \in {S_error, S_finish}
           THEN [seen EXCEPT !.isTyping = FALSE, !.isResponding = FALSE]
      ELSE IF t \in {S_content, <<"a", "n", "s", "w", "e", "r">>}
           THEN [seen EXCEPT !.isTyping = FALSE, !.isResponding = TRUE]
      ELSE IF t \in StartTypes THEN [seen EXCEPT !.isResponding = TRUE]
      ELSE seen

RECURSIVE FanOut(_, _, _)
\* the bridge's listener: for (const cb of callbacks) cb(payload)
FanOut(cbs, sess, msg) ==
  IF Len(cbs) = 0 THEN sess
  ELSE FanOut(Tail(cbs), OnBotStream(sess, msg), msg)

\* a channel that hands over the newest message first
IpcDeliverNewestFirst ==
  /\ orch = "running"
  /\ ipcQ # <<>>
  /\ LET msg == ipcQ[Len(ipcQ)]
         sess == [isResponding |-> isResponding, isTyping |-> isTyping,
                  got |-> got]
         out == IF msg.ch = "bot-stream" THEN FanOut(callbacks, sess, msg)
                ELSE IF mounted /\ msg.data # ""
                     THEN [sess EXCEPT !.isTyping = TRUE,
                                       !.isResponding = TRUE]
                ELSE sess
     IN  /\ isResponding' = out.isResponding
         /\ isTyping' = out.isTyping
         /\ got' = out.got
  /\ ipcQ' = SubSeq(ipcQ, 1, Len(ipcQ) - 1)
  /\ UNCHANGED <<mainVars, req, wire, buffer, published, flushLog, rx,
                 callbacks, mounted>>

\* the chat window receives the oldest message sent to it: new-message
\* starts the session of a mounted ChatView, bot-stream goes through the
\* bridge to every callback
IpcDeliver ==
  /\ orch = "running"
  /\ ipcQ # <<>>
  /\ LET msg == Head(ipcQ)
         sess == [isResponding |-> isResponding, isTyping |-> isTyping,
                  got |-> got]
         out == IF msg.ch = "bot-stream" THEN FanOut(callbacks, sess, msg)
                ELSE IF mounted /\ msg.data # ""
                     THEN [sess EXCEPT !.isTyping = TRUE,
                                       !.isResponding = TRUE]
                ELSE sess
     IN  /\ isResponding' = out.isResponding
         /\ isTyping' = out.isTyping
         /\ got' = out.got
  /\ ipcQ' = Tail(ipcQ)
  /\ UNCHANGED <<mainVars, req, wire, buffer, published, flushLog, rx,
                 callbacks, mounted>>

\* ChatView unmounts (the route changes): its callbacks leave the bridges
\* and its state is gone
Unmount ==
  /\ orch = "running"
  /\ mounted
  /\ mounted' = FALSE
  /\ callbacks' = SelectSeq(callbacks, LAMBDA c : c # "ChatView")
  /\ isResponding' = FALSE
  /\ isTyping' = FALSE
  /\ UNCHANGED <<mainVars, req, wire, buffer, ipcQ, published, flushLog, rx,
                 got>>

\* ChatView mounts: fresh state, its callbacks join the bridges
Mount ==
  /\ orch = "running"
  /\ ~mounted
  /\ mounted' = TRUE
  /\ callbacks' = Append(callbacks, "ChatView")
  /\ isResponding' = FALSE
  /\ isTyping' = FALSE
  /\ UNCHANGED <<mainVars, req, wire, buffer, ipcQ, published, flushLog, rx,
                 got>>

-----------------------------------------------------------------------------
(* Specifications.                                                         *)

\* what the /chat path leaves alone
restVars == <<sessionVars, bridgeVars, shortcutVars, hotkeyVars, lifeVars>>

\* the whole /chat path
Next ==
  \/ (\E text \in Texts : SubmitInput(text)) /\ UNCHANGED restVars
  \/ (\E status \in Statuses, body \in SysBodies : OnResponse(status, body))
       /\ UNCHANGED restVars
  \/ (\E n \in 1..Len(wire) : OnData(n)) /\ UNCHANGED restVars
  \/ OnEnd /\ UNCHANGED restVars
  \/ ReqOnError /\ UNCHANGED restVars
  \/ ResOnError /\ UNCHANGED restVars
  \/ KillWorker /\ UNCHANGED restVars
  \/ OnPyClose /\ UNCHANGED restVars
  \/ FatalFault /\ UNCHANGED restVars
  \/ IpcDeliver /\ UNCHANGED restVars
  \/ Unmount /\ UNCHANGED restVars
  \/ Mount /\ UNCHANGED restVars

Spec == Init /\ [][Next]_vars

\* the decoder alone: an answered request, with every body of DecodeBodies
\* cut into chunks at every position
NextDecode ==
  \/ SubmitInput("hi") /\ UNCHANGED restVars
  \/ (\E body \in DecodeBodies : OnResponse(HttpOk, body))
       /\ UNCHANGED restVars
  \/ (\E n \in 1..Len(wire) : OnData(n)) /\ UNCHANGED restVars
  \/ OnEnd /\ UNCHANGED restVars

SpecDecode == Init /\ [][NextDecode]_vars

\* the decoder on the bodies of LineBodies, cut into chunks at every position
NextLines ==
  \/ SubmitInput("hi") /\ UNCHANGED restVars
  \/ (\E body \in LineBodies : OnResponse(HttpOk, body))
       /\ UNCHANGED restVars
  \/ (\E n \in 1..Len(wire) : OnData(n)) /\ UNCHANGED restVars
  \/ OnEnd /\ UNCHANGED restVars

SpecLines == Init /\ [][NextLines]_vars


-----------------------------------------------------------------------------
(* The submit handlers of ChatView and InputView, the main process taking  *)
(* their submit-input messages one at a time, and the transcript.          *)

MaxPending == 2

\* submit handlers waiting for checkConfig() and submit-input messages on
\* their way to the main process
Pending ==
  awaiting.chat + awaiting.input + awaiting.gone + Len(submitQ)

\* submissions are followed while the transcript is shorter than this and
\* shows no answer yet
MaxTranscript == 2

Answered(msgs) ==
  \E i \in 1..Len(msgs) : msgs[i].role = "assistant" /\ msgs[i].content # <<>>

\* the bodies the worker answers with here: a content event and [DONE], or
\* one event and no [DONE]
SessionBodies ==
  {[frames |-> f, eol |-> EolLF, term |-> TRUE] : f \in {<<"hi", "done">>, <<"a">>}}

sessionRest == <<bridgeVars, shortcutVars, hotkeyVars, lifeVars>>

\* ChatView.handleSubmit up to `await window.api.checkConfig()`: the form is
\* submitted with a non-blank input while isResponding is false
ChatHandleSubmit ==
  /\ orch = "running"
  /\ mounted
  /\ ~isResponding
  /\ Pending < MaxPending
  /\ awaiting' = [awaiting EXCEPT !.chat = @ + 1]
  /\ resetSeen' = FALSE
  /\ UNCHANGED <<pathVars, inputIsResponding, submitQ, owner, messages,
                 sessionRest>>

\* ChatView leaves the page: Unmount, and the handlers of the instance that
\* still wait for checkConfig() go on without it
ChatViewLeaves ==
  /\ Unmount
  /\ awaiting' = [awaiting EXCEPT !.gone = @ + awaiting.chat, !.chat = 0]
  /\ resetSeen' = FALSE
  /\ UNCHANGED <<inputIsResponding, submitQ, owner, messages, sessionRest>>

\* window.api.submitInput(text)
SendSubmit(from, text) ==
  submitQ' = Append(submitQ, [from |-> from, text |-> text])

\* ChatView.handleSubmit after checkConfig() has settled: not configured (or
\* the check failed) navigates to /config, configured sends submit-input and
\* sets isResponding
ChatConfigChecked(configured) ==
  /\ orch = "running"
  /\ awaiting.chat > 0
  /\ resetSeen' = FALSE
  /\ IF configured
     THEN /\ SendSubmit("chat", "hi")
          /\ isResponding' = TRUE
          /\ awaiting' = [awaiting EXCEPT !.chat = @ - 1]
          /\ UNCHANGED <<mainVars, req, wire, buffer, ipcQ, published,
                         flushLog, rx, callbacks, mounted, isTyping, got>>
     ELSE /\ Unmount
          /\ awaiting' = [awaiting EXCEPT !.gone = @ + awaiting.chat - 1,
                                          !.chat = 0]
          /\ UNCHANGED submitQ
  /\ UNCHANGED <<inputIsResponding, owner, messages, sessionRest>>

\* the same continuation in a ChatView that has been unmounted: its
\* setIsResponding changes nothing
GoneConfigChecked(configured) ==
  /\ orch = "running"
  /\ awaiting.gone > 0
  /\ resetSeen' = FALSE
  /\ IF configured
     THEN /\ SendSubmit("chat", "hi")
          /\ awaiting' = [awaiting EXCEPT !.gone = @ - 1]
          /\ UNCHANGED pathVars
     ELSE /\ IF mounted
             THEN /\ Unmount
                  /\ awaiting' = [awaiting EXCEPT
                                    !.gone = @ + awaiting.chat - 1,
                                    !.chat = 0]
             ELSE /\ awaiting' = [awaiting EXCEPT !.gone = @ - 1]
                  /\ UNCHANGED pathVars
          /\ UNCHANGED submitQ
  /\ UNCHANGED <<inputIsResponding, owner, messages, sessionRest>>

\* InputView.handleKeyDown up to the await: Enter with a non-blank value
\* while isResponding is false
InputHandleKeyDown ==
  /\ orch = "running"
  /\ ~inputIsResponding
  /\ Pending < MaxPending
  /\ awaiting' = [awaiting EXCEPT !.input = @ + 1]
  /\ resetSeen' = FALSE
  /\ UNCHANGED <<pathVars, inputIsResponding, submitQ, owner, messages,
                 sessionRest>>

\* InputView.handleKeyDown after checkConfig(): configured, or the check
\* threw, sends submit-input and sets isResponding; not configured calls
\* openSettings(), whose handler sends navigate-route '/config' to the chat
\* window
InputConfigChecked(res) ==
  /\ orch = "running"
  /\ awaiting.input > 0
  /\ resetSeen' = FALSE
  /\ IF res \in {"configured", "failed"}
     THEN /\ SendSubmit("input", "hi")
          /\ inputIsResponding' = TRUE
          /\ awaiting' = [awaiting EXCEPT !.input = @ - 1]
          /\ UNCHANGED pathVars
     ELSE /\ IF mounted /\ chatWindow # NULL
             THEN /\ Unmount
                  /\ awaiting' = [awaiting EXCEPT
                                    !.gone = @ + awaiting.chat, !.chat = 0,
                                    !.input = @ - 1]
             ELSE /\ awaiting' = [awaiting EXCEPT !.input = @ - 1]
                  /\ UNCHANGED pathVars
          /\ UNCHANGED <<submitQ, inputIsResponding>>
  /\ UNCHANGED <<owner, messages, sessionRest>>

\* InputView.handleKeyDown with the Escape key: submitInput('') is called,
\* whatever the value and isResponding are
InputEscape ==
  /\ orch = "running"
  /\ Pending < MaxPending
  /\ SendSubmit("input", "")
  /\ resetSeen' = FALSE
  /\ UNCHANGED <<pathVars, inputIsResponding, awaiting, owner, messages,
                 sessionRest>>

\* the main process receives the oldest submit-input
MainReceive ==
  /\ submitQ # <<>>
  /\ Len(messages) < MaxTranscript
  /\ ~Answered(messages)
  /\ SubmitInput(Head(submitQ).text)
  /\ submitQ' = Tail(submitQ)
  /\ owner' = Head(submitQ).from
  /\ resetSeen' = FALSE
  /\ UNCHANGED <<inputIsResponding, awaiting, messages, sessionRest>>

\* ChatView's callbacks on the message the chat window receives:
\* onNewMessage adds the user's message, onBotStream applies the event
Shown(msgs, msg) ==
  IF ~mounted THEN msgs
  ELSE IF msg.ch = "new-message"
       THEN IF msg.data # "" THEN Append(msgs, UserMessage(<<msg.data>>))
            ELSE msgs
  ELSE IF Falsy(msg.data) THEN msgs
  ELSE ApplyEvent(msgs, msg.data)

\* the chat window receives a message: the session flags and the transcript
ChatReceives ==
  /\ IpcDeliver
  /\ messages' = Shown(messages, Head(ipcQ))
  /\ resetSeen' = FALSE
  /\ UNCHANGED <<inputIsResponding, awaiting, submitQ, owner, sessionRest>>

\* a step of the /chat path that the windows do not see
Unseen(A) ==
  /\ A
  /\ resetSeen' = FALSE
  /\ UNCHANGED <<inputIsResponding, awaiting, submitQ, owner, messages,
                 sessionRest>>

\* ipcMain.on('reset-conversation-context')
ResetConversationContext ==
  /\ hasConversationContext' = FALSE
  /\ UNCHANGED <<orch, exitCause, swept, pyProc, worker, chatWindow>>

\* the session reset command: clearMessages() in the chat window and
\* reset-conversation-context in the main process
SessionReset ==
  /\ orch = "running"
  /\ messages' = ClearMessages(messages)
  /\ ResetConversationContext
  /\ resetSeen' = TRUE
  /\ UNCHANGED <<req, wire, buffer, ipcQ, published, flushLog, rx, viewVars,
                 inputIsResponding, awaiting, submitQ, owner, sessionRest>>

NextSession ==
  \/ ChatHandleSubmit
  \/ \E configured \in BOOLEAN : ChatConfigChecked(configured)
  \/ \E configured \in BOOLEAN : GoneConfigChecked(configured)
  \/ InputHandleKeyDown
  \/ \E res \in {"configured", "unconfigured", "failed"} :
       InputConfigChecked(res)
  \/ InputEscape
  \/ MainReceive
  \/ Unseen(\E body \in SessionBodies : OnResponse(HttpOk, body))
  \/ Unseen(wire # <<>> /\ OnData(Len(wire)))
  \/ Unseen(OnEnd)
  \/ Unseen(ReqOnError)
  \/ ChatReceives
  \/ ChatViewLeaves
  \/ Unseen(Mount)
  \/ SessionReset

SpecSession == Init /\ [][NextSession]_vars

-----------------------------------------------------------------------------
(* ChatView drawing the events of one answer: events are sent to the chat  *)
(* window one by one and drawn.                                            *)

MaxEvents == 3

\* { type, [key]: text }
Event1(type, key, text) ==
  JObj((S_type :> JStr(type)) @@ (key :> JStr(text)))

\* { type: 'tool_call_chunk', name, arguments }
ChunkEvent(name, arguments) ==
  JObj((S_type :> JStr(S_tool_call_chunk)) @@ (S_name :> JStr(name))
       @@ (S_arguments :> JStr(arguments)))

E_blank == Event1(S_content, S_content, <<SP>>)
E_hi == Event1(S_content, S_content, <<"h", "i">>)
E_answer == Event1(S_answer, S_content, <<"o", "k">>)
E_thinking == Event1(S_thinking, S_content, <<"t">>)
E_chunk_f == ChunkEvent(<<"f">>, <<"a", "b">>)
E_chunk_b == Event1(S_tool_call_chunk, S_arguments, <<"b">>)
E_chunk_g == ChunkEvent(<<"g">>, <<"b">>)
E_tool_call ==
  JObj((S_type :> JStr(S_tool_call)) @@ (S_tool_name :> JStr(<<"f">>))
       @@ (S_args :> JStr(<<"a", "b">>)))
E_tool_result == Event1(S_tool_result, S_result, <<"r">>)

RenderEvents ==
  {E_blank, E_hi, E_answer, E_thinking, E_chunk_f, E_chunk_b, E_chunk_g,
   E_tool_call, E_tool_result, FinishEvent,
   ErrorEvent("Stream error: ", "aborted")}

\* flushEvent sends the payload of a frame to the chat window
EmitEvent(e) ==
  /\ orch = "running"
  /\ chatWindow # NULL
  /\ ipcQ = <<>>
  /\ Len(published) < MaxEvents
  /\ Publish(<<e>>)
  /\ resetSeen' = FALSE
  /\ UNCHANGED <<mainVars, req, wire, buffer, flushLog, rx, viewVars,
                 inputIsResponding, awaiting, submitQ, owner, messages,
                 sessionRest>>

NextRender ==
  \/ \E e \in RenderEvents : EmitEvent(e)
  \/ ChatReceives

SpecRender == Init /\ [][NextRender]_vars

-----------------------------------------------------------------------------
(* The preload bridge of one channel: the callback Set, the one listener   *)
(* that fans a message out to it, and handlers that subscribe and          *)
(* unsubscribe while the loop runs.  callbacks holds the Set in insertion  *)
(* order; pub.pos is the place of the Set's iterator.                      *)

MaxCalls == 2
MaxNavSubs == 2

BridgeHandlers == {"ChatView", "InputView", "other"}

bridgeRest == <<sessionVars, shortcutVars, hotkeyVars, lifeVars>>

\* everything of the /chat path but the callback Set
pathButCallbacks ==
  <<mainVars, req, wire, buffer, ipcQ, published, flushLog, rx, mounted,
    isResponding, isTyping, got>>

\* the place of h in the Set, 0 if it is not in it
PlaceOf(h, cbs) ==
  IF \E i \in 1..Len(cbs) : cbs[i] = h
  THEN CHOOSE i \in 1..Len(cbs) : cbs[i] = h
  ELSE 0

\* callbacks.add(cb)
SetAdd(cbs, h) == IF PlaceOf(h, cbs) = 0 THEN Append(cbs, h) ELSE cbs

\* callbacks.delete(cb)
SetDelete(cbs, h) == SelectSeq(cbs, LAMBDA c : c # h)

\* createChannelBridge(channel) runs (the preload script is loaded again):
\* a new Set, the old listeners removed, one listener added
CreateChannelBridge ==
  /\ ~pub.active
  /\ callbacks' = <<>>
  /\ listeners' = [ch \in DOMAIN listeners |->
                     IF ch \in BridgeChannels THEN 1 ELSE listeners[ch]]
  /\ subscribed' = {}
  /\ UNCHANGED <<pathButCallbacks, pub, navDelivered, bridgeRest>>

\* an Unsubscribe function that deletes something else than cb
UnsubscribeLeaves(h) ==
  /\ ~pub.active
  /\ callbacks' = callbacks
  /\ subscribed' = subscribed \ {h}
  /\ UNCHANGED <<pathButCallbacks, pub, listeners, navDelivered, bridgeRest>>

\* the function returned by createChannelBridge is called with cb
Subscribe(h) ==
  /\ ~pub.active
  /\ callbacks' = SetAdd(callbacks, h)
  /\ subscribed' = subscribed \cup {h}
  /\ UNCHANGED <<pathButCallbacks, pub, listeners, navDelivered, bridgeRest>>

\* the Unsubscribe function of cb is called
Unsubscribe(h) ==
  /\ ~pub.active
  /\ callbacks' = SetDelete(callbacks, h)
  /\ subscribed' = subscribed \ {h}
  /\ UNCHANGED <<pathButCallbacks, pub, listeners, navDelivered, bridgeRest>>

\* the listener is called with a message: the for-of loop starts
BeginPublish ==
  /\ ~pub.active
  /\ listeners["bot-stream"] >= 1
  /\ pub' = [NoPub EXCEPT !.active = TRUE, !.atStart = subscribed]
  /\ UNCHANGED <<pathVars, listeners, navDelivered, subscribed, bridgeRest>>

\* the loop calls the next callback of the Set
InvokeNext ==
  /\ pub.active
  /\ pub.pos < Len(callbacks)
  /\ pub' = [pub EXCEPT !.pos = @ + 1, !.running = callbacks[pub.pos + 1],
                        !.invoked = Append(@, callbacks[pub.pos + 1])]
  /\ UNCHANGED <<pathVars, listeners, navDelivered, subscribed, bridgeRest>>

\* a delete that moves the later entries down under the loop's index
InHandlerUnsubscribeSplice(g) ==
  /\ pub.active
  /\ pub.running # NULL
  /\ pub.calls < MaxCalls
  /\ callbacks' = SetDelete(callbacks, g)
  /\ subscribed' = subscribed \ {g}
  /\ pub' = [pub EXCEPT !.unsub = @ \cup {g},
               !.selfUnsub = IF g = pub.running THEN @ \cup {g} ELSE @,
               !.calls = @ + 1]
  /\ UNCHANGED <<pathButCallbacks, listeners, navDelivered, bridgeRest>>

\* the running callback calls the Unsubscribe function of g: an entry the
\* iterator has passed leaves the Set without moving the iterator
InHandlerUnsubscribe(g) ==
  /\ pub.active
  /\ pub.running # NULL
  /\ pub.calls < MaxCalls
  /\ callbacks' = SetDelete(callbacks, g)
  /\ subscribed' = subscribed \ {g}
  /\ pub' = [pub EXCEPT
               !.pos = IF PlaceOf(g, callbacks) \in 1..pub.pos THEN @ - 1
                       ELSE @,
               !.unsub = @ \cup {g},
               !.selfUnsub = IF g = pub.running THEN @ \cup {g} ELSE @,
               !.calls = @ + 1]
  /\ UNCHANGED <<pathButCallbacks, listeners, navDelivered, bridgeRest>>

\* the running callback subscribes g: a new entry goes to the end of the Set
InHandlerSubscribe(g) ==
  /\ pub.active
  /\ pub.running # NULL
  /\ pub.calls < MaxCalls
  /\ callbacks' = SetAdd(callbacks, g)
  /\ subscribed' = subscribed \cup {g}
  /\ pub' = [pub EXCEPT !.sub = @ \cup {g}, !.calls = @ + 1]
  /\ UNCHANGED <<pathButCallbacks, listeners, navDelivered, bridgeRest>>

\* the iterator is at the end of the Set: the listener returns
EndPublish ==
  /\ pub.active
  /\ pub.pos = Len(callbacks)
  /\ pub' = [pub EXCEPT !.active = FALSE, !.running = NULL]
  /\ UNCHANGED <<pathVars, listeners, navDelivered, subscribed, bridgeRest>>

\* api.onNavigate(callback): App's effect runs (again, when navigate has
\* changed); the callback gets a listener of its own
OnNavigate ==
  /\ listeners[NavigateRoute] < MaxNavSubs
  /\ listeners' = [listeners EXCEPT ![NavigateRoute] = @ + 1]
  /\ UNCHANGED <<pathVars, pub, navDelivered, subscribed, bridgeRest>>

\* a navigate-route message arrives: every listener calls its callback
NavigateArrives ==
  /\ navDelivered' = listeners[NavigateRoute]
  /\ UNCHANGED <<pathVars, pub, listeners, subscribed, bridgeRest>>

NextBridge ==
  \/ CreateChannelBridge
  \/ \E h \in BridgeHandlers : Subscribe(h)
  \/ \E h \in BridgeHandlers : Unsubscribe(h)
  \/ BeginPublish
  \/ InvokeNext
  \/ \E g \in BridgeHandlers : InHandlerUnsubscribe(g)
  \/ \E g \in BridgeHandlers : InHandlerSubscribe(g)
  \/ EndPublish
  \/ OnNavigate
  \/ NavigateArrives

SpecBridge == Init /\ [][NextBridge]_vars

-----------------------------------------------------------------------------
(***************************************************************************)
(* The global shortcut.  registered is Electron's table of this            *)
(* application's accelerators and their handlers; osHeld are the           *)
(* accelerators another application holds, for which register returns      *)
(* false; an accelerator in Invalid makes register throw.  probe records   *)
(* the last check-shortcut call and the state it started from.             *)
(***************************************************************************)
shortcutRest == <<sessionVars, bridgeVars, lifeVars>>

UnregisterAll == [a \in Accels |-> "none"]

\* the accelerator bound to toggleMainWindow, NULL when there is none
ActiveAccel ==
  IF \E a \in Accels : registered[a] = "toggle"
  THEN CHOOSE a \in Accels : registered[a] = "toggle"
  ELSE NULL

\* a step that is not the resume
CaptureGoesOn == [capture EXCEPT !.resumed = FALSE]

\* what globalShortcut.register(shortcut, ...) does
RegisterOutcome(shortcut) ==
  IF shortcut \in Invalid THEN "throw"
  ELSE IF shortcut \in osHeld THEN "fail"
  ELSE "ok"

\* a register that does not clear the bindings first
RegisterGlobalShortcutKeeps(shortcut) ==
  /\ registered' = IF RegisterOutcome(shortcut) = "ok"
                     THEN [registered EXCEPT ![shortcut] = "toggle"]
                     ELSE registered
  /\ currentGlobalShortcut' = IF RegisterOutcome(shortcut) = "ok"
                                THEN shortcut
                                ELSE currentGlobalShortcut
  /\ probe' = NoProbe
  /\ hotkey' = [shortcut |-> shortcut, outcome |-> RegisterOutcome(shortcut)]
  /\ UNCHANGED <<pathVars, osHeld, shortcutRest>>

\* registerGlobalShortcut(shortcut)
RegisterGlobalShortcut(shortcut) ==
  /\ registered' = IF RegisterOutcome(shortcut) = "ok"
                     THEN [UnregisterAll EXCEPT ![shortcut] = "toggle"]
                     ELSE UnregisterAll
  /\ currentGlobalShortcut' = IF RegisterOutcome(shortcut) = "ok"
                                THEN shortcut
                                ELSE currentGlobalShortcut
  /\ probe' = NoProbe
  /\ hotkey' = [shortcut |-> shortcut, outcome |-> RegisterOutcome(shortcut)]
  /\ UNCHANGED <<pathVars, osHeld, shortcutRest>>

\* ipcMain.handle('suspend-shortcut')
SuspendShortcut ==
  /\ registered' = UnregisterAll
  /\ probe' = NoProbe
  /\ hotkey' = NoRegister
  /\ capture' = [suspended |-> TRUE, before |-> ActiveAccel,
                  resumed |-> FALSE]
  /\ UNCHANGED <<pathVars, osHeld, currentGlobalShortcut, poll, shortcutRest>>

\* ipcMain.handle('resume-shortcut')
ResumeShortcut ==
  /\ currentGlobalShortcut # NULL
  /\ RegisterGlobalShortcut(currentGlobalShortcut)
  /\ capture' = [suspended |-> FALSE,
                  before |-> IF capture.suspended THEN capture.before
                             ELSE NULL,
                  resumed |-> capture.suspended]
  /\ UNCHANGED poll

\* ipcMain.handle('save-config') with data.wake_up_shortcut present
SaveConfig ==
  /\ \E shortcut \in Accels : RegisterGlobalShortcut(shortcut)
  /\ capture' = CaptureGoesOn
  /\ UNCHANGED poll

\* the value check-shortcut returns
CheckResult(shortcut) ==
  /\ registered[shortcut] = "none"
  /\ RegisterOutcome(shortcut) = "ok"

\* a probe that leaves its no-op handler registered
CheckShortcutNoUnregister(shortcut) ==
  /\ registered' = IF CheckResult(shortcut)
                     THEN [registered EXCEPT ![shortcut] = "noop"]
                     ELSE registered
  /\ probe' = [shortcut |-> shortcut, ret |-> CheckResult(shortcut),
               registered |-> registered, current |-> currentGlobalShortcut,
               held |-> osHeld]
  /\ hotkey' = NoRegister
  /\ capture' = CaptureGoesOn
  /\ UNCHANGED <<pathVars, osHeld, currentGlobalShortcut, poll, shortcutRest>>

\* ipcMain.handle('check-shortcut'): a registered accelerator is refused
\* at once; otherwise a no-op handler is registered and, when that
\* succeeded, unregistered again
CheckShortcut(shortcut) ==
  /\ registered' = IF CheckResult(shortcut)
                     THEN [[registered EXCEPT ![shortcut] = "noop"]
                             EXCEPT ![shortcut] = "none"]
                     ELSE registered
  /\ probe' = [shortcut |-> shortcut, ret |-> CheckResult(shortcut),
               registered |-> registered, current |-> currentGlobalShortcut,
               held |-> osHeld]
  /\ hotkey' = NoRegister
  /\ capture' = CaptureGoesOn
  /\ UNCHANGED <<pathVars, osHeld, currentGlobalShortcut, poll, shortcutRest>>

\* another application takes an accelerator this one does not hold
OtherAppGrabs(a) ==
  /\ a \notin Invalid
  /\ a \notin osHeld
  /\ registered[a] = "none"
  /\ osHeld' = osHeld \cup {a}
  /\ probe' = NoProbe
  /\ hotkey' = NoRegister
  /\ capture' = CaptureGoesOn
  /\ UNCHANGED <<pathVars, registered, currentGlobalShortcut, poll,
                 shortcutRest>>

\* another application gives an accelerator back
OtherAppReleases(a) ==
  /\ a \in osHeld
  /\ osHeld' = osHeld \ {a}
  /\ probe' = NoProbe
  /\ hotkey' = NoRegister
  /\ capture' = CaptureGoesOn
  /\ UNCHANGED <<pathVars, registered, currentGlobalShortcut, poll,
                 shortcutRest>>

\* the retry cap of checkConfigLoop
MaxAttempts == 20

\* checkConfigLoop: GET /config answers; the shortcut it names, or the
\* default when it names none, is registered and GET /config/check is issued
PollConfigAnswered(shortcut) ==
  /\ orch = "running"
  /\ poll.phase = "config"
  /\ poll.attempts < MaxAttempts
  /\ RegisterGlobalShortcut(IF shortcut = NULL THEN DefaultShortcut
                            ELSE shortcut)
  /\ capture' = CaptureGoesOn
  /\ poll' = [poll EXCEPT !.phase = "check"]

\* checkConfigLoop: GET /config/check answers too; the loop is left by break
PollCheckAnswered ==
  /\ orch = "running"
  /\ poll.phase = "check"
  /\ poll' = [poll EXCEPT !.phase = "done", !.answered = poll.attempts + 1]
  /\ probe' = NoProbe
  /\ hotkey' = NoRegister
  /\ capture' = CaptureGoesOn
  /\ UNCHANGED <<pathVars, registered, osHeld, currentGlobalShortcut,
                 shortcutRest>>

\* an attempt that never adds to the counter
PollAttemptFailsForever ==
  /\ orch = "running"
  /\ poll.phase \in {"config", "check"}
  /\ poll' = [poll EXCEPT !.phase = "config"]
  /\ probe' = NoProbe
  /\ hotkey' = NoRegister
  /\ capture' = CaptureGoesOn
  /\ UNCHANGED <<pathVars, registered, osHeld, currentGlobalShortcut,
                 shortcutRest>>

\* checkConfigLoop: one of the two requests is rejected; after a second the
\* counter goes up and the loop condition is tested again
PollAttemptFails ==
  /\ orch = "running"
  /\ poll.phase \in {"config", "check"}
  /\ poll' = [poll EXCEPT !.phase = IF poll.attempts + 1 < MaxAttempts
                                    THEN "config" ELSE "done",
                          !.attempts = poll.attempts + 1]
  /\ probe' = NoProbe
  /\ hotkey' = NoRegister
  /\ capture' = CaptureGoesOn
  /\ UNCHANGED <<pathVars, registered, osHeld, currentGlobalShortcut,
                 shortcutRest>>

NextPoll ==
  \/ \E shortcut \in Accels \cup {NULL} : PollConfigAnswered(shortcut)
  \/ PollCheckAnswered
  \/ PollAttemptFails

\* timers fire and every request is answered or refused
SpecPoll == Init /\ [][NextPoll]_vars /\ WF_vars(NextPoll)

NextShortcut ==
  \/ NextPoll
  \/ SaveConfig
  \/ SuspendShortcut
  \/ ResumeShortcut
  \/ \E shortcut \in Accels : CheckShortcut(shortcut)
  \/ \E a \in Accels : OtherAppGrabs(a)
  \/ \E a \in Accels : OtherAppReleases(a)

SpecShortcut == Init /\ [][NextShortcut]_vars

-----------------------------------------------------------------------------
(***************************************************************************)
(* makeApiRequest: one non-streaming request.  api.sent is the body the    *)
(* worker answers with, api.body the part of it still on the wire,         *)
(* api.buffer what the 'data' handler has collected, api.settled how the   *)
(* promise was settled.                                                    *)
(***************************************************************************)
apiRest == <<pathVars, sessionVars, bridgeVars, shortcutVars, hotkeyVars,
             reap, boot, stale, second, stop>>

B_a == <<"{", QT, "a", QT, ":", "1", "}">>
B_ok == <<"{", QT, "o", "k", QT, ":", "t", "r", "u", "e", "}">>

\* response bodies: JSON documents, JSON with white space around it, a cut
\* document, a document with a tail, plain text and the empty body
ApiBodies ==
  {B_a, B_ok, <<SP>> \o B_a \o <<LF>>, <<QT, "h", "i", QT>>,
   SubSeq(B_a, 1, 6), B_a \o <<"x">>, <<"o", "o", "p", "s">>, <<>>}

\* makeApiRequest(path, method, data): the request is written and ended
MakeApiRequest(body) ==
  /\ api.phase = "idle"
  /\ api' = [NoApi EXCEPT !.phase = "sent", !.sent = body, !.body = body]
  /\ UNCHANGED apiRest

\* res.on('data'): buffer += chunk
ApiOnData(n) ==
  /\ api.phase \in {"sent", "receiving"}
  /\ api' = [api EXCEPT !.phase = "receiving",
                        !.buffer = @ \o SubSeq(api.body, 1, n),
                        !.body = SliceFrom(@, n + 1)]
  /\ UNCHANGED apiRest

\* an 'end' handler that fails the call when the body does not parse
ApiOnEndRejects ==
  /\ api.phase \in {"sent", "receiving"}
  /\ api.body = <<>>
  /\ api' = [api EXCEPT
               !.phase = "done",
               !.settled = IF JSONParse(api.buffer).ok THEN "json"
                           ELSE "rejected",
               !.json = JSONParse(api.buffer).value]
  /\ UNCHANGED apiRest

\* res.on('end'): resolve(JSON.parse(buffer)), or resolve(buffer) when
\* JSON.parse throws
ApiOnEnd ==
  /\ api.phase \in {"sent", "receiving"}
  /\ api.body = <<>>
  /\ api' = [api EXCEPT
               !.phase = "done",
               !.settled = IF JSONParse(api.buffer).ok THEN "json"
                           ELSE "text",
               !.json = JSONParse(api.buffer).value,
               !.text = IF JSONParse(api.buffer).ok THEN <<>>
                        ELSE api.buffer]
  /\ UNCHANGED apiRest

\* req.on('error'): reject(err); the connection is refused, or is reset
\* before the response has ended
ApiOnError ==
  /\ api.phase \in {"sent", "receiving"}
  /\ api' = [api EXCEPT !.phase = "done", !.error = TRUE,
                        !.settled = "rejected"]
  /\ UNCHANGED apiRest

\* the caller has its answer; the next call can be made
ApiReturn ==
  /\ api.phase = "done"
  /\ api' = NoApi
  /\ UNCHANGED apiRest

NextApi ==
  \/ \E body \in ApiBodies : MakeApiRequest(body)
  \/ \E n \in 1..Len(api.body) : ApiOnData(n)
  \/ ApiOnEnd
  \/ ApiOnError
  \/ ApiReturn

SpecApi == Init /\ [][NextApi]_vars

-----------------------------------------------------------------------------
(***************************************************************************)
(* killProcessOnPort: one call.  reap.pids are the candidates the scan     *)
(* (netstat or lsof) reported, in its order; reap.fails are the            *)
(* candidates whose kill command exits with an error; reap.tried are the   *)
(* candidates a kill command was run for.                                  *)
(***************************************************************************)
reapRest == <<pathVars, sessionVars, bridgeVars, shortcutVars, hotkeyVars,
              api, boot, stale, second, stop>>

MaxPids == 3
Pids == 1..MaxPids
Platforms == {"win32", "posix"}

\* the lists of distinct candidates
PidLists ==
  {l \in UNION {[1..n -> Pids] : n \in 0..MaxPids} :
     \A i, j \in 1..Len(l) : i # j => l[i] # l[j]}

\* killProcessOnPort(port) up to its first kill: the scan has answered; a
\* scan that finds nothing exits with an error, which is caught
KillProcessOnPort(platform, pids, fails) ==
  /\ reap.phase = "idle"
  /\ reap' = [NoReap EXCEPT !.phase = IF pids = <<>> THEN "done"
                                      ELSE "killing",
                            !.platform = platform,
                            !.scan = IF pids = <<>> THEN "nothing"
                                     ELSE "found",
                            !.pids = pids, !.fails = fails]
  /\ UNCHANGED reapRest

\* the body of the for loop, once: taskkill /F /PID pid inside its own
\* try on win32, kill -9 pid inside the try around the whole loop elsewhere;
\* the loop that runs to its end is followed by the wait of 500 ms
ReapKill ==
  /\ reap.phase = "killing"
  /\ LET pid == reap.pids[reap.next]
         aborted == pid \in reap.fails /\ reap.platform # "win32"
     IN  reap' = [reap EXCEPT
                    !.tried = Append(@, pid),
                    !.next = @ + 1,
                    !.phase = IF aborted \/ reap.next = Len(reap.pids)
                              THEN "done" ELSE "killing",
                    !.settled = ~aborted /\ reap.next = Len(reap.pids)]
  /\ UNCHANGED reapRest

\* the promise of killProcessOnPort is resolved
ReapReturn ==
  /\ reap.phase = "done"
  /\ reap' = NoReap
  /\ UNCHANGED reapRest

NextReap ==
  \/ \E platform \in Platforms, pids \in PidLists, fails \in SUBSET Pids :
       KillProcessOnPort(platform, pids, fails)
  \/ ReapKill
  \/ ReapReturn

SpecReap == Init /\ [][NextReap]_vars

-----------------------------------------------------------------------------
(***************************************************************************)
(* The process lifecycle: the single-instance lock, app.whenReady(),       *)
(* startPythonServer, a second launch, and the exit hooks.  worker is the  *)
(* process pyProc was last set to; stale holds the workers spawned before  *)
(* it ("running", "dead" with its 'close' event still to come, "closed").  *)
(***************************************************************************)
lifeRest == <<hasConversationContext, req, wire, buffer, ipcQ, published,
              flushLog, rx, viewVars, sessionVars, bridgeVars, osHeld, probe,
              capture, poll, api, reap, stop>>

MaxStarts == 2
MaxLaunches == 2

\* the main script has run and holds the lock; 'ready' is still to come
Launching ==
  [phase |-> "launching", starts |-> 0, bound |-> FALSE, crashed |-> FALSE]

InitLife ==
  /\ InitCommon
  /\ registered = UnregisterAll
  /\ pyProc = NULL
  /\ worker = "unborn"
  /\ chatWindow = NULL
  /\ boot = Launching

\* a ready callback that can run again
WhenReadyAgain ==
  /\ orch = "running"
  /\ boot.phase \in {"launching", "up"}
  /\ boot' = [boot EXCEPT !.phase = "reclaiming"]
  /\ chatWindow' = "win"
  /\ registered' = [UnregisterAll EXCEPT ![DefaultShortcut] = "toggle"]
  /\ currentGlobalShortcut' = DefaultShortcut
  /\ hotkey' = [shortcut |-> DefaultShortcut, outcome |-> "ok"]
  /\ UNCHANGED <<orch, exitCause, swept, pyProc, worker, stale, second,
                 lifeRest>>

\* the app.whenReady() callback: startPythonServer() runs up to its await
\* of killProcessOnPort, the windows and the tray are created and the
\* default shortcut is registered
WhenReady ==
  /\ orch = "running"
  /\ boot.phase = "launching"
  /\ boot' = [boot EXCEPT !.phase = "reclaiming"]
  /\ chatWindow' = "win"
  /\ registered' = [UnregisterAll EXCEPT ![DefaultShortcut] = "toggle"]
  /\ currentGlobalShortcut' = DefaultShortcut
  /\ hotkey' = [shortcut |-> DefaultShortcut, outcome |-> "ok"]
  /\ UNCHANGED <<orch, exitCause, swept, pyProc, worker, stale, second,
                 lifeRest>>

\* what becomes of the worker pyProc referred to when pyProc is overwritten
Superseded ==
  IF worker = "unborn" THEN stale
  ELSE Append(stale, IF worker = "dead" /\ pyProc = NULL THEN "closed"
                     ELSE worker)

\* startPythonServer after its await: pyProc = spawn(...)
StartReturns ==
  /\ orch = "running"
  /\ boot.phase = "reclaiming"
  /\ stale' = Superseded
  /\ pyProc' = "proc"
  /\ worker' = "running"
  /\ boot' = [boot EXCEPT !.phase = "up", !.starts = @ + 1, !.bound = FALSE]
  /\ UNCHANGED <<orch, exitCause, swept, chatWindow, registered,
                 currentGlobalShortcut, hotkey, second, lifeRest>>

\* the worker starts to listen on the port
WorkerBinds ==
  /\ worker = "running"
  /\ ~boot.bound
  /\ \A i \in 1..Len(stale) : stale[i] # "running"
  /\ boot' = [boot EXCEPT !.bound = TRUE]
  /\ UNCHANGED <<orch, exitCause, swept, pyProc, worker, chatWindow,
                 registered, currentGlobalShortcut, hotkey, stale, second,
                 lifeRest>>

\* the worker dies on its own
WorkerCrashes ==
  /\ KillWorker
  /\ boot' = [boot EXCEPT !.crashed = TRUE]
  /\ UNCHANGED <<sessionVars, bridgeVars, shortcutVars, hotkeyVars, api, reap,
                 stale, second, stop>>

\* startPythonServer() called once more: killProcessOnPort(5678) kills the
\* worker when it listens on the port and finds nothing when it does not
StartPythonServer ==
  /\ orch = "running"
  /\ boot.phase = "up"
  /\ boot.starts < MaxStarts
  /\ boot' = [boot EXCEPT !.phase = "reclaiming"]
  /\ worker' = IF worker = "running" /\ boot.bound THEN "dead" ELSE worker
  /\ UNCHANGED <<orch, exitCause, swept, pyProc, chatWindow, registered,
                 currentGlobalShortcut, hotkey, stale, second, lifeRest>>

\* pyProc.on('close') of a worker spawned earlier: pyProc = null
StaleClose(i) ==
  /\ orch = "running"
  /\ stale[i] = "dead"
  /\ stale' = [stale EXCEPT ![i] = "closed"]
  /\ pyProc' = NULL
  /\ UNCHANGED <<orch, exitCause, swept, worker, chatWindow, registered,
                 currentGlobalShortcut, hotkey, boot, second, lifeRest>>

\* the application is launched again: requestSingleInstanceLock() returns
\* false, app.quit() is called and the rest of the main script runs
SecondLaunch ==
  /\ orch = "running"
  /\ second.phase \in {"none", "exited"}
  /\ ~second.pending
  /\ second.seen < MaxLaunches
  /\ second' = [second EXCEPT !.phase = "refused", !.did = {},
                              !.pending = TRUE]
  /\ UNCHANGED <<orch, exitCause, swept, pyProc, worker, chatWindow,
                 registered, currentGlobalShortcut, hotkey, boot, stale,
                 lifeRest>>

\* 'ready' is delivered to the refused process before it is gone: its
\* app.whenReady() callback runs up to the first await
SecondReady ==
  /\ second.phase = "refused"
  /\ second' = [second EXCEPT
                  !.phase = "ready",
                  !.did = {"port-scan", "windows", "tray", "shortcut"}]
  /\ UNCHANGED <<orch, exitCause, swept, pyProc, worker, chatWindow,
                 registered, currentGlobalShortcut, hotkey, boot, stale,
                 lifeRest>>

\* the refused process is gone
SecondExit ==
  /\ second.phase \in {"refused", "ready"}
  /\ second' = [second EXCEPT !.phase = "exited"]
  /\ UNCHANGED <<orch, exitCause, swept, pyProc, worker, chatWindow,
                 registered, currentGlobalShortcut, hotkey, boot, stale,
                 lifeRest>>

\* a second-instance handler that starts the worker as well
SecondInstanceStarts ==
  /\ orch = "running"
  /\ second.pending
  /\ second' = [second EXCEPT
                  !.pending = FALSE, !.seen = @ + 1,
                  !.focus = IF chatWindow # NULL THEN "chat" ELSE "none"]
  /\ boot' = [boot EXCEPT !.phase = "reclaiming"]
  /\ UNCHANGED <<orch, exitCause, swept, pyProc, worker, chatWindow,
                 registered, currentGlobalShortcut, hotkey, stale,
                 lifeRest>>

\* app.on('second-instance'): the chat window, when there is one, is
\* restored, shown, focused and sent focus-input
SecondInstance ==
  /\ orch = "running"
  /\ second.pending
  /\ second' = [second EXCEPT
                  !.pending = FALSE, !.seen = @ + 1,
                  !.focus = IF chatWindow # NULL THEN "chat" ELSE "none"]
  /\ UNCHANGED <<orch, exitCause, swept, pyProc, worker, chatWindow,
                 registered, currentGlobalShortcut, hotkey, boot, stale,
                 lifeRest>>

\* the ways out of the main process; each runs killPythonProcess()
ExitHooks ==
  {"quit", "window-all-closed", "before-quit", "will-quit", "exit", "SIGINT",
   "SIGTERM", "uncaughtException", "unhandledRejection"}

\* an exit hook runs and the process ends; the tray's quit item destroys
\* the windows first
ExitHook(h) ==
  /\ orch = "running"
  /\ UncaughtException(h)
  /\ chatWindow' = IF h = "quit" THEN NULL ELSE chatWindow
  /\ UNCHANGED <<registered, currentGlobalShortcut, hotkey, boot, stale,
                 second, lifeRest>>

\* pyProc.on('close') of the worker pyProc refers to
PyClose ==
  /\ OnPyClose
  /\ UNCHANGED restVars

NextLife ==
  \/ WhenReady
  \/ StartReturns
  \/ WorkerBinds
  \/ WorkerCrashes
  \/ PyClose
  \/ SecondLaunch
  \/ SecondReady
  \/ SecondExit
  \/ SecondInstance
  \/ \E h \in ExitHooks : ExitHook(h)

SpecLife == InitLife /\ [][NextLife]_vars

NextSupervisor ==
  \/ NextLife
  \/ StartPythonServer
  \/ \E i \in 1..Len(stale) : StaleClose(i)

SpecSupervisor == InitLife /\ [][NextSupervisor]_vars

\* what killPythonProcess and its timer leave alone
stopRest ==
  <<orch, exitCause, swept, chatWindow, hasConversationContext, req, wire,
    buffer, ipcQ, published, flushLog, rx, viewVars, sessionVars, bridgeVars,
    shortcutVars, hotkeyVars, api, reap, boot, stale, second>>

\* killPythonProcess() in a main process that goes on running (before-quit,
\* window-all-closed): on win32 taskkill /pid /t and, when that fails,
\* taskkill /pid /f /t; elsewhere SIGTERM and a timer of one second for
\* SIGKILL; a signal to a worker that is gone throws and is caught. pyProc
\* is set to null before the function returns. graceful: the worker takes
\* the taskkill without /f.
KillPythonProcess(platform, graceful) ==
  /\ orch = "running"
  /\ pyProc # NULL
  /\ pyProc' = NULL
  /\ IF platform = "win32"
     THEN IF graceful /\ worker = "running"
          THEN /\ stop' = [stop EXCEPT !.signal = "taskkill"]
               /\ worker' \in {"running", "dead"}
          ELSE /\ stop' = [stop EXCEPT !.signal = "taskkill", !.forced = TRUE]
               /\ worker' = "dead"
     ELSE /\ stop' = [stop EXCEPT !.signal = "SIGTERM",
                                  !.timer = (worker = "running")]
          /\ worker' = worker
  /\ UNCHANGED stopRest

\* the worker exits on the signal it was sent
WorkerExits ==
  /\ stop.signal # "none"
  /\ KillWorker
  /\ UNCHANGED restVars

\* the timer set by killPythonProcess fires: process.kill(pid, 'SIGKILL')
ForcedKill ==
  /\ orch = "running"
  /\ stop.timer
  /\ stop' = [stop EXCEPT !.timer = FALSE, !.forced = TRUE,
                          !.late = (worker = "dead")]
  /\ worker' = "dead"
  /\ UNCHANGED <<pyProc, stopRest>>

\* the worker's life with killPythonProcess written out
NextStop ==
  \/ WhenReady
  \/ StartReturns
  \/ WorkerBinds
  \/ WorkerCrashes
  \/ PyClose
  \/ \E platform \in Platforms, graceful \in BOOLEAN :
       KillPythonProcess(platform, graceful)
  \/ WorkerExits
  \/ ForcedKill
  \/ \E h \in ExitHooks : ExitHook(h)

SpecStop == InitLife /\ [][NextStop]_vars

\* the start of the worker with the port reaper written out:
\* startPythonServer awaits killProcessOnPort(5678) and goes on to spawn
\* when its promise is resolved
NextStart ==
  \/ WhenReady
  \/ \E platform \in Platforms, pids \in PidLists, fails \in SUBSET Pids :
       boot.phase = "reclaiming" /\ KillProcessOnPort(platform, pids, fails)
  \/ boot.phase = "reclaiming" /\ ReapKill
  \/ reap.phase = "done" /\ StartReturns
  \/ WorkerBinds
  \/ WorkerCrashes
  \/ PyClose
  \/ \E h \in ExitHooks : ExitHook(h)

SpecStart == InitLife /\ [][NextStart]_vars

-----------------------------------------------------------------------------
(* What the frames of a body are expected to yield, written down from the  *)
(* protocol and not computed by the decoder.                               *)

Ev_a == JObj(<<"a">> :> JNum(<<"1">>))
Ev_b == JObj(<<"b">> :> JNum(<<"2">>))
Ev_hi == JObj((S_type :> JStr(S_content)) @@ (S_content :> JStr(<<"h", "i">>)))

\* the events of one frame of each kind
KindEvents(kind) ==
  CASE kind = "a" -> <<Ev_a>>
    [] kind = "a2" -> <<>>
    [] kind = "b" -> <<Ev_b>>
    [] kind = "done" -> <<FinishEvent>>
    [] kind = "tight" -> <<FinishEvent>>
    [] kind = "hi" -> <<Ev_hi>>
    [] kind = "ping" -> <<>>
    [] kind = "multi" -> <<Ev_b>>

RECURSIVE ExpectedEvents(_)
ExpectedEvents(frames) ==
  IF Len(frames) = 0 THEN <<>>
  ELSE KindEvents(frames[1]) \o ExpectedEvents(Tail(frames))

\* frame i of the request's body has been received together with its separator
FrameComplete(i) ==
  /\ i \in 1..Len(req.frames)
  /\ i < Len(req.frames) \/ req.term
  /\ Len(BodyText(SubSeq(req.frames, 1, i), req.eol, TRUE)) <= Len(rx)

CompleteFrames == Cardinality({i \in 1..Len(req.frames) : FrameComplete(i)})

-----------------------------------------------------------------------------
(* Claims.                                                                 *)

\* C1 (as stated): while the body is streamed, the number of bot-stream
\* events published equals the number of complete, separator-terminated
\* frames received, whatever the frames carry.
C1_OneEventPerCompleteFrame ==
  req.phase = "streaming" => Len(published) = CompleteFrames

\* C1 (amended): while the body is streamed, every complete frame has been
\* flushed exactly once, a complete frame whose payload is [DONE] or valid
\* JSON has published exactly one event, a complete frame with an invalid
\* payload or without a data line has published none, and nothing has been
\* published for the bytes behind the last separator.
C1_OneEventPerDecodableFrame ==
  req.phase = "streaming" =>
    /\ Len(flushLog) = CompleteFrames
    /\ \A i \in 1..Len(flushLog) :
         Len(flushLog[i].sent) = Len(KindEvents(req.frames[i]))
    /\ published = ExpectedEvents(SubSeq(req.frames, 1, CompleteFrames))

C1_Witness ==
  /\ req.phase = "streaming"
  /\ CompleteFrames >= 1
  /\ Len(published) >= 1
  /\ buffer # <<>>
  /\ Len(rx) > Len(buffer) + 2

\* C2: the sequence numbers ChatView's bot-stream callback has seen are
\* strictly increasing, and the events of the frames were published in the
\* order in which the frames were flushed.
C2_DeliveredInParseOrder ==
  /\ \A i, k \in 1..Len(got) : i < k => got[i] < got[k]
  /\ \A i \in 1..Len(got) : got[i] \in 1..Len(published)
  /\ SelectSeq(published, LAMBDA e : TypeOf(e) # S_error) = SentBy(flushLog)

C2_Witness ==
  /\ Len(got) >= 2
  /\ Len(flushLog) >= 2
  /\ published[got[1]] = Ev_a
  /\ published[got[2]] = FinishEvent

\* C3: a flushed frame of kind [DONE] has sent exactly the finish event and
\* handed nothing to JSON.parse, at every position of the stream, and no
\* call of JSON.parse was given the text [DONE].
C3_DoneYieldsFinishUnparsed ==
  /\ \A i \in 1..Len(flushLog) :
       req.frames[i] = "done" =>
         /\ flushLog[i].sent = <<FinishEvent>>
         /\ flushLog[i].parsed = <<>>
  /\ \A i \in 1..Len(flushLog) :
       \A k \in 1..Len(flushLog[i].parsed) : flushLog[i].parsed[k] # S_DONE

C3_Witness ==
  \E i \in 2..Len(flushLog) :
    /\ req.frames[i] = "done"
    /\ flushLog[i].sent = <<FinishEvent>>
    /\ req.frames[i - 1] \in {"a", "a2"}

\* the events of a body written with LF and decoded as one chunk and the end
LFEvents(frames, term) ==
  LET r == DataStep(<<>>, BodyText(frames, EolLF, term), chatWindow)
  IN  SentBy(r.flushes \o EndStep(r.buffer, chatWindow))

\* C4: when a body written with CRLF has ended, whatever its chunks were,
\* the events published are those of the same frames written with LF.
C4_CRLFSameAsLF ==
  (req.phase = "ended" /\ req.eol = EolCRLF) =>
    published = LFEvents(req.frames, req.term)

C4_Witness ==
  /\ req.phase = "ended"
  /\ req.eol = EolCRLF
  /\ "multi" \in {req.frames[i] : i \in 1..Len(req.frames)}
  /\ Len(published) >= 2

C5Chunk1 == T_a
C5Chunk2 == <<"}", LF, LF>> \o T_b \o <<LF, LF>>

\* the request's body is the two chunks of the scenario
C5Body ==
  /\ req.phase \in {"streaming", "ended"}
  /\ rx \o wire = C5Chunk1 \o C5Chunk2

\* C5 (as stated): after the first chunk nothing is emitted, after the second
\* chunk the events are {a:1} and then {b:2}.
C5_TwoEvents ==
  /\ (C5Body /\ rx = C5Chunk1) => published = <<>>
  /\ (C5Body /\ rx = C5Chunk1 \o C5Chunk2) => published = <<Ev_a, Ev_b>>

\* C5 (amended): after the first chunk nothing is emitted; after the second
\* chunk exactly one event, {b:2}, is emitted: the first frame's payload
\* {"a":1}} is not valid JSON and the frame is dropped.
C5_OnlySecondEvent ==
  /\ (C5Body /\ rx = C5Chunk1) => published = <<>>
  /\ (C5Body /\ rx = C5Chunk1 \o C5Chunk2) =>
       /\ published = <<Ev_b>>
       /\ Len(flushLog) = 2
       /\ flushLog[1].sent = <<>>

C5_Witness ==
  /\ rx = C5Chunk1 \o C5Chunk2
  /\ published = <<Ev_b>>
  /\ wire = <<>>

\* C6: a flushed frame with a payload that is not valid JSON has sent
\* nothing, the orchestrator is still running, and every complete frame
\* behind it has been flushed with the events of its kind, in order.
C6_BadFrameDroppedStreamGoesOn ==
  \A i \in 1..Len(flushLog) :
    req.frames[i] = "a2" =>
      /\ flushLog[i].sent = <<>>
      /\ flushLog[i].parsed # <<>>
      /\ orch = "running"
      /\ \A k \in (i + 1)..Len(req.frames) :
           FrameComplete(k) =>
             /\ k <= Len(flushLog)
             /\ flushLog[k].sent = KindEvents(req.frames[k])

C6_Witness ==
  /\ Len(flushLog) = 2
  /\ req.frames[1] = "a2"
  /\ flushLog[2].sent = <<Ev_a>>
  /\ published = <<Ev_a>>

\* C7 (as stated): a request that failed (refused, reset while streaming, or
\* answered with a status other than 200) has published at least one error
\* event, and no failure was thrown up to the uncaughtException handler.
C7_EveryFailureSurfaced ==
  /\ req.phase \in {"failed", "resetting", "aborted", "thrown"} => req.errs >= 1
  /\ exitCause # "http-status"

\* C8 (as stated): the orchestrator has exited only because of a top-level
\* fault outside the /chat path, and then after the worker-termination
\* sweep.
C8_OnlyFaultEndsOrchestrator ==
  orch = "exited" => (exitCause = "fault" /\ swept)

\* C9: once the response has a status other than 200, no byte of its body
\* has been handed to the decoder, buffered, flushed or published.
C9_BadStatusBodyUntouched ==
  (req.status # 0 /\ req.status # HttpOk) =>
    /\ rx = <<>>
    /\ buffer = <<>>
    /\ flushLog = <<>>
    /\ published = <<>>
    /\ req.phase = "thrown"

C9_Witness ==
  /\ req.status = 500
  /\ req.phase = "thrown"
  /\ wire # <<>>

\* C10 (as stated): a request whose worker died while the body was streamed
\* and that has come to its end has published exactly one error event, and
\* once the chat window has drawn it a mounted ChatView is not responding.
C10_ExactlyOneErrorThenIdle ==
  (req.killed /\ req.phase \in {"ended", "aborted"}) =>
    /\ req.errs = 1
    /\ (ipcQ = <<>> /\ mounted) => ~isResponding


\* C11 (as stated): the worker never comes back on its own, and every
\* submit-input step leaves a running worker behind: a submission that finds
\* the worker dead spawns a fresh one.
C11_SubmissionSpawnsWorker ==
  [][IF req.phase \in Settled /\ req'.phase = "sent"
     THEN worker' = "running"
     ELSE worker = "dead" => worker' = "dead"]_vars


\* the request's error or finish event has been published
Finished ==
  \E i \in 1..Len(published) : TypeOf(published[i]) \in {S_finish, S_error}

\* C12 (as stated): a submit-input leaves a window only while that window's
\* session is Idle: when ChatView's handler sends one, isResponding of
\* ChatView is false, and when InputView's handler sends one, isResponding
\* of InputView is false, also when two handlers waited for the
\* configuration check together.
C12_NoSubmitWhileBusy ==
  [][/\ (awaiting'.chat < awaiting.chat /\ Len(submitQ') > Len(submitQ))
          => ~isResponding
     /\ (awaiting'.input < awaiting.input /\ Len(submitQ') > Len(submitQ))
          => ~inputIsResponding]_vars

\* C13 (as stated): once the error or finish event of a request has been
\* published and the chat window has drawn it, and no other submission is
\* under way, the window that submitted the request is not blocked.
C13_IdleAfterRequestEnded ==
  (Finished /\ ipcQ = <<>> /\ Pending = 0 /\ req.phase \in Settled) =>
    /\ owner = "input" => ~inputIsResponding
    /\ (owner = "chat" /\ mounted) => ~isResponding

\* C14 (as stated): right after a session reset command the session of the
\* chat window is Idle and the transcript is empty.
C14_ResetForcesIdle ==
  resetSeen =>
    /\ messages = <<>>
    /\ mounted => (~isResponding /\ ~isTyping)


\* the assistant message an event is applied to
Assistant(msgs) ==
  IF msgs = <<>> \/ msgs[Len(msgs)].role # "assistant" THEN NewAssistant
  ELSE msgs[Len(msgs)]

RECURSIVE TextOf(_)
\* the text of the text blocks, in order
TextOf(blocks) ==
  IF blocks = <<>> THEN <<>>
  ELSE (IF blocks[1].type = "text" THEN blocks[1].content ELSE <<>>)
       \o TextOf(Tail(blocks))

\* this step draws a bot-stream event of the type in a mounted ChatView
Draws(type) ==
  /\ ipcQ # <<>>
  /\ ipcQ' = Tail(ipcQ)
  /\ mounted
  /\ Head(ipcQ).ch = "bot-stream"
  /\ TypeOf(Head(ipcQ).data) = type

\* C15 (as stated): after an answer event is drawn, the message content and
\* the text of the text blocks are each either what was streamed before or
\* the answer text alone, never the streamed text with the answer text added.
C15_AnswerNeverAdded ==
  [][Draws(S_answer) =>
       LET m == Assistant(messages)
           n == Assistant(messages')
           answer == OrEmpty(Head(ipcQ).data, S_content)
       IN  /\ n.content \in {m.content, answer}
           /\ TextOf(n.blocks) \in {TextOf(m.blocks), answer}]_vars

\* C15 (amended): when an answer event is drawn and the content accumulated
\* so far is not blank, the message is left as it is; when the content is
\* empty or blank, the content becomes the answer text and the answer text
\* is added to the text blocks behind the blank text already streamed.
C15_AnswerOnlyWhenBlank ==
  [][Draws(S_answer) =>
       LET m == Assistant(messages)
           n == Assistant(messages')
           answer == OrEmpty(Head(ipcQ).data, S_content)
       IN  IF \E i \in 1..Len(m.content) : ~IsSpace(m.content[i])
           THEN n = m
           ELSE /\ n.content = answer
                /\ TextOf(n.blocks) = TextOf(m.blocks) \o answer]_vars

C15_Witness ==
  /\ ipcQ = <<>>
  /\ published = <<E_thinking, E_blank, E_answer>>
  /\ Assistant(messages).content = <<"o", "k">>
  /\ TextOf(Assistant(messages).blocks) = <<SP, "o", "k">>

\* C16: when a tool_call_chunk is drawn whose arguments are a suffix of the
\* arguments of the running tool record, that record's arguments stay as
\* they are, and unless the chunk names another tool no block is added and
\* no block's arguments change.
C16_DuplicateChunkDiscarded ==
  [][(/\ Draws(S_tool_call_chunk)
      /\ Has(Head(ipcQ).data, S_arguments)
      /\ LastIs(Assistant(messages), "tool_execution")
      /\ Assistant(messages).blocks[Len(Assistant(messages).blocks)].status
           = "running"
      /\ EndsWith(Assistant(messages).blocks[Len(Assistant(messages).blocks)].args,
                  Str(Head(ipcQ).data, S_arguments)))
     =>
       LET m == Assistant(messages)
           n == Assistant(messages')
           k == Len(m.blocks)
       IN  /\ Len(n.blocks) >= k
           /\ n.blocks[k].args = m.blocks[k].args
           /\ (~Has(Head(ipcQ).data, S_name)
                 \/ Str(Head(ipcQ).data, S_name) = m.blocks[k].name)
                => n.blocks = m.blocks]_vars

C16_Witness ==
  /\ ipcQ = <<>>
  /\ published = <<E_chunk_f, E_chunk_b, E_chunk_b>>
  /\ Len(Assistant(messages).blocks) = 1
  /\ Assistant(messages).blocks[1].args = <<"a", "b">>


\* the channels the renderer's views listen to
UIChannels == {"new-message", "bot-stream", "focus-input", NavigateRoute}

\* how often h was called by the loop of the last publish
Calls(h) == Cardinality({i \in 1..Len(pub.invoked) : pub.invoked[i] = h})

\* C17 (as stated): every UI-facing channel has exactly one transport
\* listener whatever was subscribed, and a navigate-route message runs the
\* App callback once.
C17_OneListenerPerChannel ==
  /\ \A ch \in UIChannels : listeners[ch] = 1
  /\ navDelivered <= 1

\* C18: in a publish during which a callback has unsubscribed a callback,
\* every callback that was subscribed when the publish began and has not
\* been unsubscribed is called at most once while the loop runs and exactly
\* once when it has ended.
C18_OthersStillInvoked ==
  pub.unsub # {} =>
    \A h \in pub.atStart \ pub.unsub :
      /\ Calls(h) <= 1
      /\ ~pub.active => Calls(h) = 1

C18_Witness ==
  /\ ~pub.active
  /\ pub.selfUnsub = {"ChatView"}
  /\ pub.invoked = <<"ChatView", "InputView", "other">>
  /\ pub.unsub = {"ChatView"}

\* C19: every callback the loop of a publish has called was subscribed when
\* the publish began or was subscribed during it: a callback whose
\* unsubscribe was complete before the publish is not called, whatever is
\* subscribed and unsubscribed while the loop runs.
C19_UnsubscribedNeverInvoked ==
  \A i \in 1..Len(pub.invoked) : pub.invoked[i] \in pub.atStart \cup pub.sub

C19_Witness ==
  /\ ~pub.active
  /\ "ChatView" \notin pub.atStart
  /\ pub.invoked = <<"InputView", "other">>
  /\ pub.calls = MaxCalls
  /\ pub.sub = {"other"}
  /\ pub.unsub = {"InputView"}

\* C20: a probe of the active binding returns false and leaves the binding
\* registered with its toggle handler; a probe of an accelerator nobody
\* holds returns true and leaves nothing registered for it; after either,
\* the registered accelerators and the remembered current shortcut are what
\* they were before the call.
C20_ProbeLeavesNoTrace ==
  probe.shortcut # NULL =>
    /\ registered = probe.registered
    /\ currentGlobalShortcut = probe.current
    /\ probe.registered[probe.shortcut] = "toggle" =>
         /\ ~probe.ret
         /\ registered[probe.shortcut] = "toggle"
    /\ ( /\ probe.registered[probe.shortcut] = "none"
         /\ probe.shortcut \notin probe.held \cup Invalid ) =>
         /\ probe.ret
         /\ registered[probe.shortcut] = "none"

\* a free accelerator was probed while the active binding was registered
C20_Witness ==
  /\ probe.shortcut # NULL
  /\ probe.ret
  /\ probe.shortcut # currentGlobalShortcut
  /\ registered[currentGlobalShortcut] = "toggle"
  /\ registered[probe.shortcut] = "none"

\* C21: a register call clears every binding before it tries the new one; a
\* failed attempt (register returned false or threw) is swallowed and leaves
\* no binding at all, a successful one leaves exactly the new binding; so at
\* most one accelerator is bound in any state.
C21_RegisterClearsThenBinds ==
  /\ Cardinality({a \in Accels : registered[a] # "none"}) <= 1
  /\ orch = "running"
  /\ hotkey.shortcut # NULL =>
       IF hotkey.outcome = "ok"
       THEN registered = [UnregisterAll EXCEPT ![hotkey.shortcut] = "toggle"]
       ELSE registered = UnregisterAll

\* a register call for an accelerator another application holds has just
\* failed, after an earlier call had bound a different accelerator
C21_Witness ==
  /\ hotkey.shortcut # NULL
  /\ hotkey.outcome = "fail"
  /\ currentGlobalShortcut \notin {hotkey.shortcut, DefaultShortcut}
  /\ registered = UnregisterAll

\* C22: between a suspend and its resume nothing is registered, whatever
\* runs in between, and the resume registers the accelerator that was active
\* just before the suspend.
C22_NothingBoundWhileSuspended ==
  /\ capture.suspended => registered = UnregisterAll
  /\ (capture.resumed /\ capture.before # NULL) =>
       registered[capture.before] = "toggle"

C29_ResolvesJsonOrText ==
  api.phase = "done" =>
    /\ api.settled # "pending"
    /\ (api.settled = "rejected") <=> api.error
    /\ ~api.error =>
         /\ api.buffer = api.sent
         /\ IF JSONParse(api.sent).ok
            THEN api.settled = "json" /\ api.json = JSONParse(api.sent).value
            ELSE api.settled = "text" /\ api.text = api.sent

\* a body that is not a JSON document has been received to its end
C29_Witness ==
  /\ api.phase = "done"
  /\ api.settled = "text"
  /\ api.text = B_a \o <<"x">>

\* C28: a port cleanup ends without throwing, also when the scan found
\* nothing, and has run a kill command for every candidate of the scan, also
\* for those that come after a candidate whose kill command failed.
C28_EveryCandidateTried ==
  reap.phase = "done" =>
    /\ ~reap.threw
    /\ reap.tried = reap.pids

\* the workers spawned by this main process that are running
Alive ==
  (IF worker = "running" THEN 1 ELSE 0)
    + Cardinality({i \in 1..Len(stale) : stale[i] = "running"})

\* C23: a process that was refused the single-instance lock does nothing
\* else before it is gone: no port cleanup, no window, no tray, no shortcut.
C23_RefusedDoesNothing ==
  second.phase # "none" => second.did = {}

\* C24: the second-instance handler brings the existing window forward and
\* sends focus-input, and changes nothing else: not the worker or its
\* handle, not the start-up state, not the request in flight, not the
\* conversation-context flag, not the shortcut.
C24_SecondInstanceOnlyFocuses ==
  [][second'.seen # second.seen =>
       /\ second'.focus = IF chatWindow # NULL THEN "chat" ELSE "none"
       /\ UNCHANGED <<orch, pyProc, worker, stale, boot, req, submitQ,
                      hasConversationContext, registered,
                      currentGlobalShortcut>>]_vars

\* a second launch was observed while the worker was running
C24_Witness ==
  /\ second.seen > 0
  /\ second.focus = "chat"
  /\ worker = "running"
  /\ pyProc # NULL

\* C25: at most one worker spawned by the main process is running, and the
\* one handle refers to a worker that was spawned.
C25_AtMostOneWorker ==
  /\ Alive <= 1
  /\ pyProc # NULL => worker # "unborn"

\* the worker runs, started once, and second launches have come and gone
C25_Witness ==
  /\ worker = "running"
  /\ boot.starts = 1
  /\ second.seen = MaxLaunches
  /\ Alive = 1

\* C26: every exit path has run the termination of the worker, and once the
\* main process has exited none of its workers is running.
C26_NoWorkerOutlives ==
  orch = "exited" => swept /\ Alive = 0

\* C27: after a second start, issued while a worker was running and with no
\* worker dying on its own, exactly one worker runs and the handle refers
\* to it.
C27_StartIsIdempotent ==
  (orch = "running" /\ boot.phase = "up" /\ boot.starts >= 2
     /\ ~boot.crashed) =>
    /\ Alive = 1
    /\ worker = "running"
    /\ pyProc # NULL

\* C34: when the stream ends, what is left in the buffer (the text after the
\* last separator of the body) is decoded once, as one last frame and by the
\* per-frame logic, if it is not blank; a blank rest emits nothing. So the
\* calls of flushEvent are those of the separator-terminated frames followed
\* by at most one call, for the rest.
C34_RestFlushedOnceAtEnd ==
  req.phase = "ended" /\ req.status = HttpOk =>
    LET whole == DrainFrames(ReplaceCRLF(rx), chatWindow)
        last == IF Trim(whole.buffer) # <<>>
                THEN <<FlushEvent(whole.buffer, chatWindow)>> ELSE <<>>
    IN  /\ buffer = whole.buffer
        /\ IndexOfSeparator(buffer) = 0
        /\ flushLog = whole.flushes \o last
        /\ published = SentBy(whole.flushes) \o SentBy(last)

\* a body without its last separator has ended and its last frame was
\* emitted by the end flush
C34_Witness ==
  /\ req.phase = "ended"
  /\ req.status = HttpOk
  /\ ~req.term
  /\ Trim(buffer) # <<>>
  /\ Len(flushLog) = Len(req.frames)
  /\ flushLog[Len(flushLog)].text = buffer
  /\ flushLog[Len(flushLog)].sent = <<Ev_b>>

\* the lines of a frame that start with the marker, in order; with trimmed,
\* each line is first stripped of its trailing white space
MarkedLines(text, trimmed) ==
  LET lines == Split(text)
      ls == [i \in 1..Len(lines) |->
               IF trimmed THEN TrimEnd(lines[i]) ELSE lines[i]]
  IN  SelectSeq(ls, LAMBDA l : StartsWith(l, S_data))

\* a marked line without the marker and without one character after it, if
\* that character is in skip
Unmarked(l, skip) ==
  LET v == SubSeq(l, Len(S_data) + 1, Len(l))
  IN  IF v # <<>> /\ v[1] \in skip THEN Tail(v) ELSE v

\* the payload of a frame: the values of its marked lines joined with LF;
\* none if no line is marked
PayloadOf(text, trimmed, skip) ==
  LET ml == MarkedLines(text, trimmed)
  IN  IF ml = <<>> THEN <<>>
      ELSE <<Join([i \in 1..Len(ml) |-> Unmarked(ml[i], skip)])>>

\* the payload one call of flushEvent worked on: the text it parsed, or the
\* sentinel it recognised
Worked(f) ==
  IF f.parsed # <<>> THEN f.parsed
  ELSE IF f.sent = <<FinishEvent>> THEN <<S_DONE>>
  ELSE <<>>

\* C35 (as stated): the payload of a frame is made of its lines that start
\* with data:, each without the marker and at most one following space,
\* joined with LF in order; a frame without such a line has no payload and
\* emits nothing.
C35_MarkerAndOneSpaceRemoved ==
  \A i \in 1..Len(flushLog) :
    LET f == flushLog[i]
        p == PayloadOf(f.text, FALSE, {SP})
    IN  /\ Worked(f) = p
        /\ p = <<>> => f.sent = <<>>

\* C35 (amended): each line is first stripped of its trailing white space;
\* the payload is made of the lines that then start with data:, each
\* without the marker and at most one following white-space character,
\* joined with LF in order; a frame without such a line has no payload and
\* emits nothing.
C35_TrailingSpaceRemovedToo ==
  \A i \in 1..Len(flushLog) :
    LET f == flushLog[i]
        p == PayloadOf(f.text, TRUE, {SP, "\t", LF, CR})
    IN  /\ Worked(f) = p
        /\ p = <<>> => f.sent = <<>>

\* a frame of an event line, an indented line and two data lines, the last
\* with a space at its end, gave the event of the two values joined
C35_Witness ==
  \E i \in 1..Len(flushLog) :
    /\ Len(Split(flushLog[i].text)) = 4
    /\ Len(MarkedLines(flushLog[i].text, TRUE)) = 2
    /\ flushLog[i].text[Len(flushLog[i].text)] = SP
    /\ flushLog[i].sent = <<Ev_b>>

\* what the decoder emits for a text that arrives as one chunk and ends
OneChunk(text, win) ==
  LET d == DataStep(<<>>, text, win)
  IN  SentBy(d.flushes \o EndStep(d.buffer, win))

\* C37: the events emitted up to and including the end flush are those the
\* same bytes give when they arrive as one chunk, however they were cut into
\* chunks.
C37_SameEventsHoweverSplit ==
  req.phase = "ended" /\ req.status = HttpOk =>
    published = OneChunk(rx, chatWindow)

RECURSIVE ChunkArguments(_)
\* the argument texts of a sequence of events, joined in order
ChunkArguments(evs) ==
  IF evs = <<>> THEN <<>>
  ELSE OrEmpty(evs[1], S_arguments) \o ChunkArguments(Tail(evs))

\* every event sent so far is a tool_call_chunk of the tool call f, each
\* sent once by the worker, and the chat window has drawn them all
OneToolCallStreamed ==
  /\ ipcQ = <<>>
  /\ mounted
  /\ published # <<>>
  /\ Has(published[1], S_name)
  /\ \A i \in 1..Len(published) :
        /\ TypeOf(published[i]) = S_tool_call_chunk
        /\ Has(published[i], S_name) => Str(published[i], S_name) = <<"f">>

\* C38: when the chunks of one running tool call were each sent once, the
\* argument text of its record is the chunks' argument texts joined in
\* order: no chunk is lost.
C38_NoGenuineChunkLost ==
  OneToolCallStreamed =>
    LET m == Assistant(messages)
    IN  /\ Len(m.blocks) = 1
        /\ m.blocks[1].args = ChunkArguments(published)

\* C39: the loop of a publish calls only callbacks that were subscribed when
\* the publish began; a callback subscribed by a running callback is not
\* called before the next publish.
C39_OnlySubscribedAtStartInvoked ==
  \A i \in 1..Len(pub.invoked) : pub.invoked[i] \in pub.atStart

\* C40: no submit-input with an empty text is on its way to the main
\* process, and the request the main process has issued to /chat carries a
\* text that is not empty.
C40_OnlyNonBlankTextStarts ==
  /\ \A i \in 1..Len(submitQ) : submitQ[i].text # ""
  /\ req.phase # "none" => req.text # ""

\* C36: once the finish or error event of a stream has been sent and the
\* chat window has drawn every event sent so far, the events that followed
\* it in the same stream included, the session of a mounted ChatView is
\* Idle: no submission was made since, so it has stayed Idle.
C36_LateEventsLeaveIdle ==
  (/\ mounted
   /\ ipcQ = <<>>
   /\ req.phase = "none"
   /\ \E i \in 1..Len(published) :
         TypeOf(published[i]) \in {S_finish, S_error})
    => ~isResponding

\* C31: a worker has been spawned only after killProcessOnPort has
\* completed, every candidate it tried included, and, when it terminated a
\* process, after its wait of 500 ms.
C31_SpawnAfterReapAndSettle ==
  boot.starts > 0 =>
    /\ reap.phase = "done"
    /\ (\E i \in 1..Len(reap.tried) : reap.tried[i] \notin reap.fails)
         => reap.settled

\* C32: the forced kill is sent only to a worker that has not exited: it is
\* never sent after the worker has exited on the graceful signal.
C32_ForcedOnlyIfStillRunning ==
  stop.forced => ~stop.late

\* C33: a worker that has not exited has its handle: sending it a signal
\* does not drop the handle, only its exit callback does.
C33_HandleKeptUntilExit ==
  worker = "running" => pyProc # NULL

====
